---- MODULE Spec2Model ----
(***************************************************************************)
(* A model of the camo object-document mapper: the document lifecycle      *)
(* (create, validate, canonicalize, save, find), the NeDB storage client   *)
(* and the reference population engine.                                    *)
(*                                                                         *)
(* JavaScript values are records [t, n, s]: t is the runtime kind, n the   *)
(* number (or the ordinal of a native id / timestamp), s the string.       *)
(* Every asynchronous operation is a sequence of actions, one per turn of  *)
(* the event loop (one promise callback), so that operations interleave    *)
(* exactly where the code yields.                                          *)
(***************************************************************************)
EXTENDS Integers, Sequences, FiniteSets, TLC

(***************************************************************************)
(* Bounds of the model                                                     *)
(***************************************************************************)
\* number of in-memory Document instances of the Person class
MaxDocs == 2
\* number of ids the storage engine hands out
MaxIds == 2
\* number of save() calls
MaxSaves == 2
\* number of stored User records
MaxOwners == 2
\* number of stored records of each referenced class
MaxTargets == 1
\* number of references the stored User records hold altogether
MaxRefs == 2
\* number of records of the referenced classes that get deleted
MaxDeletes == 1

\* number of instances of the class Foo
MaxInsts == 2
\* number of changes the application makes to the SCHEMA source and to the
\* arrays of the instances
MaxEdits == 2
\* number of delete() calls on instances
MaxCalls == 2
\* number of times the class Account is used
MaxUses == 2
\* number of elements of an array field
MaxElems == 2
\* number of calls that concern the storage client
MaxTries == 3
\* number of purgeObsoleteProperties calls
MaxPurges == 2
\* number of stored records that carry a property to purge
MaxObsolete == 1
\* number of stored Eye records where the order of an array matters
MaxEyes == 2
\* number of finds populate() calls issue for one referenced class
MaxFinds == 2

Slots == 1..MaxDocs

(***************************************************************************)
(* Values                                                                  *)
(***************************************************************************)
V(t, n, s) == [t |-> t, n |-> n, s |-> s]
Undef == V("undefined", 0, "")
Null == V("null", 0, "")
\* the property is not present on the object at all
Absent == V("absent", 0, "")
Num(n) == V("number", n, "")
Str(s) == V("string", 0, s)
\* a string of 16 alphanumeric characters; n tells the ids apart
NativeId(n) == V("nativeid", n, "")
\* a Date object holding timestamp n
DateV(n) == V("date", n, "")
\* an instance of the embedded class Coffee (its schema has no fields)
Emb == V("embedded", 0, "")

\* the custom id an application presets ('1234567890abcdef')
CustomId == NativeId(0)

typeof(v) ==
    CASE v.t = "undefined" -> "undefined"
      [] v.t = "number" -> "number"
      [] v.t \in {"string", "nativeid"} -> "string"
      [] OTHER -> "object"

(***************************************************************************)
(* lib/validate.js                                                         *)
(***************************************************************************)
isNumber(v) == v.t = "number"

isDate(v) == isNumber(v) \/ v.t = "date"

isNativeId(v) == v.t = "nativeid"

isEmbeddedDocument(v) == v.t = "embedded"

isType(value, type) ==
    CASE type = "String" -> typeof(value) = "string"
      [] type = "Number" -> isNumber(value)
      [] type = "Date" -> isDate(value)
      [] type = "Coffee" -> isEmbeddedDocument(value)
      [] OTHER -> FALSE

isValidType(value, type) ==
    IF value.t = "null" THEN TRUE
    ELSE IF value.t = "undefined" THEN TRUE
    ELSE isType(value, type)

isInChoices(entry, value) == entry.hasChoices => value \in entry.choices

\* Object.keys(value).length is 0 for the empty string and nonzero for every
\* other string and for a document instance
isEmptyValue(value) ==
    \/ value.t = "undefined"
    \/ /\ value.t \notin {"number", "date", "boolean"}
       /\ value.t = "string"
       /\ value.s = ""

\* Object.keys(null) throws a TypeError
isEmptyValueThrows(value) == value.t = "null"

\* the JavaScript comparison value < n (undefined compares false, null as 0)
LessThan(value, n) ==
    CASE value.t \in {"number", "date"} -> value.n < n
      [] value.t = "null" -> 0 < n
      [] OTHER -> FALSE

GreaterThan(value, n) ==
    CASE value.t \in {"number", "date"} -> value.n > n
      [] value.t = "null" -> 0 > n
      [] OTHER -> FALSE

(***************************************************************************)
(* The schema of the modelled Document class Person, in declaration order  *)
(* after the system id:                                                    *)
(*   name: {type: String, required: true}                                  *)
(*   item: {type: Number, min: 0, max: 100}                                *)
(*   email: {type: String, unique: true}                                   *)
(*   birthday: Date                                                        *)
(*   contents: Coffee           (an EmbeddedDocument class)                *)
(***************************************************************************)
Entry(key, type) ==
    [key |-> key, type |-> type, required |-> FALSE, unique |-> FALSE,
     hasMin |-> FALSE, min |-> 0, hasMax |-> FALSE, max |-> 0,
     hasChoices |-> FALSE, choices |-> {},
     hasMatch |-> FALSE, match |-> {}, hasValidate |-> FALSE, accepts |-> {}]

MinItem == 0
MaxItem == 100

generateSchema ==
    << Entry("_id", "String"),
       [Entry("name", "String") EXCEPT !.required = TRUE],
       [Entry("item", "Number") EXCEPT !.hasMin = TRUE, !.min = MinItem,
                                       !.hasMax = TRUE, !.max = MaxItem],
       [Entry("email", "String") EXCEPT !.unique = TRUE],
       Entry("birthday", "Date"),
       Entry("contents", "Coffee") >>

SchemaKeys == {generateSchema[i].key : i \in 1..Len(generateSchema)}

\* the own enumerable properties an instance can carry besides the schema keys
UnknownKeys == {"extra"}

InstanceKeys == SchemaKeys \cup UnknownKeys

\* a freshly instantiated document: _id null, every schema key present and
\* undefined (no field of Person declares a default)
_instantiate == [k \in InstanceKeys |->
                    IF k = "_id" THEN Null
                    ELSE IF k \in SchemaKeys THEN Undef ELSE Absent]

(***************************************************************************)
(* BaseDocument.validate: the first failing check, as <<key, check>>, or   *)
(* <<"", "ok">>                                                            *)
(***************************************************************************)
\* (variant ValidateKey_ChoicesFirst: the choices are checked before the type)
ValidateKey_ChoicesFirst(entry, value) ==
    IF value.t \notin {"null", "undefined"} /\ isEmbeddedDocument(value) THEN "ok"
    ELSE IF ~isInChoices(entry, value) THEN "choices"
    ELSE IF ~isValidType(value, entry.type) THEN "type"
    ELSE IF entry.required /\ isEmptyValueThrows(value) THEN "TypeError"
    ELSE IF entry.required /\ isEmptyValue(value) THEN "required"
    ELSE IF entry.hasMatch /\ typeof(value) = "string" /\ value \notin entry.match THEN "match"
    ELSE IF entry.hasMin /\ LessThan(value, entry.min) THEN "min"
    ELSE IF entry.hasMax /\ GreaterThan(value, entry.max) THEN "max"
    ELSE IF entry.hasValidate /\ value \notin entry.accepts THEN "validate"
    ELSE "ok"

ValidateKey(entry, value) ==
    IF value.t \notin {"null", "undefined"} /\ isEmbeddedDocument(value) THEN "ok"
    ELSE IF ~isValidType(value, entry.type) THEN "type"
    ELSE IF entry.required /\ isEmptyValueThrows(value) THEN "TypeError"
    ELSE IF entry.required /\ isEmptyValue(value) THEN "required"
    ELSE IF entry.hasMatch /\ typeof(value) = "string" /\ value \notin entry.match THEN "match"
    ELSE IF ~isInChoices(entry, value) THEN "choices"
    ELSE IF entry.hasMin /\ LessThan(value, entry.min) THEN "min"
    ELSE IF entry.hasMax /\ GreaterThan(value, entry.max) THEN "max"
    ELSE IF entry.hasValidate /\ value \notin entry.accepts THEN "validate"
    ELSE "ok"

\* the loop over the keys of a schema, in the order of their declaration
RECURSIVE ValidateIn(_, _, _)
ValidateIn(sch, doc, i) ==
    IF i > Len(sch) THEN <<"", "ok">>
    ELSE LET r == ValidateKey(sch[i], doc[sch[i].key])
         IN IF r # "ok" THEN <<sch[i].key, r>>
            ELSE ValidateIn(sch, doc, i + 1)

ValidateFrom(doc, i) == ValidateIn(generateSchema, doc, i)

\* (variant validate_NoChecks: every value passes)
validate_NoChecks(doc) == <<"", "ok">>
validate(doc) == ValidateFrom(doc, 1)

\* BaseDocument.canonicalize: a Date field holding a date-like value becomes
\* a Date object
canonicalize(doc) ==
    [k \in InstanceKeys |->
        IF \E i \in 1..Len(generateSchema) :
              generateSchema[i].key = k /\ generateSchema[i].type = "Date"
           /\ isDate(doc[k])
        THEN DateV(doc[k].n)
        ELSE doc[k]]

(***************************************************************************)
(* State                                                                   *)
(***************************************************************************)
VARIABLES
    behavior,        \* the global unknown data key behaviour
    lastSet,         \* the argument of the latest setUnknownDataKeyBehavior call
    rejecting,       \* the hooks the classes override to return a rejected promise
    indexes,         \* the fields of the collection with a unique index
    indexesCreated,  \* whether the index bootstrap of the class has run
    live,            \* the slots that hold a Document instance
    heap,            \* the own properties of each instance
    lastCreate,      \* the outcome of the latest create(data) call
    pc,              \* where the save() of each instance stands
    log,             \* the steps the current or latest save() of each instance ran
    pend,            \* the rejections among the hook promises save() is awaiting
    reason,          \* what the latest save() of each instance rejected with
    payload,         \* the object save() handed to the storage client
    saveId,          \* the id save() handed to the storage client
    dbResult,        \* what the storage client resolved with
    idAtCall,        \* _id of the instance when save() was called
    wrote,           \* whether the current or latest save() wrote a record
    saves,           \* the number of save() calls so far
    failedBefore,    \* whether an earlier save() of the instance failed validation
    store,           \* the records of the collection
    nextId,          \* the ordinal of the next id the storage engine generates
    handled,         \* the unknown keys the latest _fromData of a fetched record met
    targets,         \* the ids of the stored records of each referenced class
    ownerRecs,       \* the stored records of the referencing class User
    docs,            \* the User instances the current find call works on
    result,          \* the owners whose records the storage find returned
    popPc,           \* where the current find call stands
    popOpts,         \* the options argument of the current find call
    pending,         \* the id2popTarget map of each class, built by populate
    loads,           \* the classes whose find populate is awaiting
    finds,           \* the finds populate issued, per class
    findOpts,        \* the options populate handed to those finds
    missing,         \* the pending targets a find of populate did not return
    SCHEMA,          \* the static SCHEMA object of the class Foo, key by key
    optDefault,      \* the default property of each options object (an array)
    arrs,            \* the elements of each array object
    schema,          \* the compiled schema of the class Foo, key by key
    compiled,        \* whether the schema of the class Foo has been compiled
    compiledAs,      \* what the compiled schema said when it was compiled
    insts,           \* the instances of the class Foo, in the order of creation
    lastOp,          \* the latest operation on the class Foo or its instances
    subject,         \* the document a single operation is applied to
    outcome,         \* what that operation returned or threw
    delPc,           \* where the delete() of each instance stands
    delLog,          \* the delete hooks of each instance invoked so far: <<who, hook>>
    delPend,         \* the rejections among the hook promises delete() is awaiting
    delReason,       \* what the latest delete() of each instance rejected with
    delRet,          \* what the latest delete() of each instance resolved with
    deletes,         \* the number of delete() calls so far
    decl,            \* the SCHEMA source of the class Account, key by key
    built,           \* whether the schema of the class Account has been compiled
    requests,        \* the createIndex requests the storage client has received
    uses,            \* the number of times the class Account has been used
    opCall,          \* the operation the application called, and its inputs
    opPos,           \* the step of that operation that runs next (0: none)
    opErr,           \* the error a step of the operation raised
    opEnd,           \* how the promise the operation returned stands
    dbClient,        \* _dbClient: 0 while unset, else the number of the client instance
    Datastore,       \* the Datastore class the NeDB client uses ("" while unset)
    clients,         \* the number of client instances constructed so far
    tries,           \* the number of calls made so far
    lastTry,         \* the latest call and how it ended
    touched,         \* the number of operations that reached the datastore
    purgePc,         \* where each purgeObsoleteProperties call stands
    purgeOld,        \* oldUnknownDataKeyBehavior of each purge call
    purgeLeft,       \* the records that still carry one of the purged properties
    configured,      \* the behaviour the application configured
    hkOp,            \* the operation called on the Cup instance ("" before the call)
    hkPos,           \* the number of hook phases of that operation started so far
    hkAsync,         \* the documents whose hooks return a promise that settles later
    hkLog,           \* the hooks that started and ended: <<document, hook, "start" or "end">>
    hkOpen,          \* the hook promises that have not settled: <<document, hook>>
    ovPc,            \* where each save() call on the one Note instance stands
    ovArg,           \* the id each call handed to DB().save (0: null)
    ovRes,           \* what DB().save resolved each call with (0: nothing yet)
    ovId,            \* _id of the Note instance (0: null)
    ovStore,         \* the ids of the records of the Note collection
    ovUnique         \* whether the class Note declares a unique field

classVars == <<behavior, lastSet, rejecting, indexes, indexesCreated>>
docVars == <<live, heap, lastCreate, handled>>
saveVars == <<pc, log, pend, reason, payload, saveId, dbResult, idAtCall, wrote, failedBefore,
             saves>>
dbVars == <<store, nextId>>
popVars == <<targets, ownerRecs, docs, result, popPc, popOpts, pending, loads, finds,
            findOpts, missing>>
schemaVars == <<SCHEMA, optDefault, arrs, schema, compiled, compiledAs, insts, lastOp>>
callVars == <<subject, outcome>>
delVars == <<delPc, delLog, delPend, delReason, delRet, deletes>>
idxVars == <<decl, built, requests, uses>>
\* the variables of the sections further down
opVars == <<opCall, opPos, opErr, opEnd>>
cliVars == <<dbClient, Datastore, clients, tries, lastTry, touched>>
purgeVars == <<purgePc, purgeOld, purgeLeft, configured>>
hookVars == <<hkOp, hkPos, hkAsync, hkLog, hkOpen>>
ovVars == <<ovPc, ovArg, ovRes, ovId, ovStore, ovUnique>>
endVars == <<hookVars, ovVars>>
lastVars == <<purgeVars, endVars>>
laterVars == <<idxVars, opVars, cliVars, lastVars>>
otherVars == <<schemaVars, callVars, delVars, laterVars>>
vars == <<classVars, docVars, saveVars, dbVars, popVars, otherVars>>

HookNames == {"preValidate", "postValidate", "preSave", "postSave"}
Hooks == {"child", "parent"} \X HookNames

NoReason == <<"", "", "">>
HookReason(call) == <<"hook", call[1], call[2]>>
ValidationError(key, check) ==
    IF check = "TypeError" THEN <<"TypeError", key, "required">>
    ELSE <<"ValidationError", key, check>>
UniqueViolated == <<"storage", "uniqueViolated", "">>

Behaviors == {"throw", "ignore", "logAndIgnore", "accept", "logAndAccept"}

(***************************************************************************)
(* BaseDocument: serialization and hooks                                   *)
(***************************************************************************)
\* the plain data of a Coffee instance
Plain == V("plain", 0, "")

\* BaseDocument._toData: every own property whose name does not start with
\* an underscore, the _id only when kept, embedded instances as their data
_toData(doc, keepId) ==
    [k \in InstanceKeys |->
        IF doc[k] = Absent THEN Absent
        ELSE IF k = "_id" THEN (IF keepId THEN doc[k] ELSE Absent)
        ELSE IF isEmbeddedDocument(doc[k]) THEN Plain
        ELSE doc[k]]

docToSave_AllOwn(doc) == _toData(doc, FALSE)

\* the record Document.save hands to the storage client: the data of the
\* properties mentioned in the schema, whatever else the instance carries
docToSave(doc) ==
    [k \in InstanceKeys |-> IF k \in SchemaKeys THEN _toData(doc, FALSE)[k] ELSE Absent]

\* BaseDocument._getEmbeddeds: the values of the embedded-typed fields
_getEmbeddeds(doc) ==
    IF isEmbeddedDocument(doc["contents"]) THEN <<"child">> ELSE <<>>

\* BaseDocument._getHookPromises: the hook is invoked on the embedded
\* documents first and on the document itself last
\* (variant _getHookPromises_OwnFirst: the document itself first)
_getHookPromises_OwnFirst(doc, hookName) ==
    << <<"parent", hookName>> >>
        \o [i \in 1..Len(_getEmbeddeds(doc)) |-> <<_getEmbeddeds(doc)[i], hookName>>]
_getHookPromises(doc, hookName) ==
    [i \in 1..Len(_getEmbeddeds(doc)) |-> <<_getEmbeddeds(doc)[i], hookName>>]
        \o << <<"parent", hookName>> >>

Range(seq) == {seq[i] : i \in 1..Len(seq)}

\* the promises among them that reject
\* (variant Rejections_Swallowed: a rejected hook promise is not observed)
Rejections_Swallowed(calls) == {}
Rejections(calls) == {HookReason(c) : c \in Range(calls) \cap rejecting}

(***************************************************************************)
(* NeDB datastore, as NeDbClient uses it                                   *)
(***************************************************************************)
\* a unique index refuses a record whose key equals that of another record
UniqueOk(rec, others) ==
    \A k \in indexes : \A r \in others : r[k] # rec[k]

\* $set: every key of the values object replaces that key of the record
SetValues(rec, values) ==
    [k \in InstanceKeys |-> IF values[k] = Absent THEN rec[k] ELSE values[k]]

\* the record a document with this id leaves in the collection
NewRecord(id, values) == [values EXCEPT !["_id"] = id]

RecordsWithId(id) == {r \in store : r["_id"] = id}

(***************************************************************************)
(* BaseDocument._fromData                                                  *)
(***************************************************************************)
\* what the unknown data key behaviour does with a key that is not in the
\* schema: reject the data, drop the key, or assign it to the instance
\* (variant OnUnknownThrows_Never: no behaviour rejects the data)
OnUnknownThrows_Never(b) == FALSE
OnUnknownThrows(b) == b = "throw"
OnUnknownData(b, value) ==
    IF b \in {"accept", "logAndAccept"} THEN value ELSE Absent

\* BaseDocument.getDefault: no field of Person declares a default
getDefault(k) == IF k = "_id" THEN Null ELSE Undef

\* the data object of a create call: no key is present
NoData == [k \in InstanceKeys |-> Absent]

\* a key of the data that is in the schema is assigned, an embedded-typed
\* one is instantiated from its data; a key that is not in the data keeps
\* what the constructor gave it
FromDataKey(k, value, b) ==
    LET v == IF value = Null THEN getDefault(k) ELSE value
    IN IF value = Absent THEN _instantiate[k]
       ELSE IF k \in SchemaKeys THEN
           (IF k = "contents" THEN Emb ELSE v)
       ELSE OnUnknownData(b, v)

_fromData(data, b) == [k \in InstanceKeys |-> FromDataKey(k, data[k], b)]

UnknownIn(data) == {k \in UnknownKeys : data[k] # Absent}

\* setUnknownDataKeyBehavior: 'default' stands for 'throw'
NormalizeBehavior(b) == IF b = "default" THEN "throw" ELSE b

(***************************************************************************)
(* Initial state                                                           *)
(***************************************************************************)
\* no save() has been called
InitNoSave ==
    /\ pc = [d \in Slots |-> "idle"]
    /\ log = [d \in Slots |-> <<>>]
    /\ pend = [d \in Slots |-> {}]
    /\ reason = [d \in Slots |-> NoReason]
    /\ payload = [d \in Slots |-> _instantiate]
    /\ saveId = [d \in Slots |-> Null]
    /\ dbResult = [d \in Slots |-> Null]
    /\ idAtCall = [d \in Slots |-> Null]
    /\ wrote = [d \in Slots |-> FALSE]
    /\ saves = 0
    /\ failedBefore = [d \in Slots |-> FALSE]

InitCommon ==
    /\ behavior = "throw"
    /\ lastSet = "default"
    /\ indexes = {}
    /\ indexesCreated = FALSE
    /\ live = {}
    /\ heap = [d \in Slots |-> _instantiate]
    /\ lastCreate = [outcome |-> "none", slot |-> 0, data |-> NoData, behavior |-> "throw"]
    /\ InitNoSave
    /\ store = {}
    /\ nextId = 1
    /\ handled = {}

(***************************************************************************)
(* Document.create and the application's assignments                       *)
(***************************************************************************)
\* instances take the slots in the order of their creation
NextSlot == Cardinality(live) + 1

\* Document._createIndexesOnce: a unique index for every unique field
\* (variant _createIndexesOnce_None: no index is created)
_createIndexesOnce_None == {}
_createIndexesOnce ==
    {generateSchema[i].key : i \in {j \in 1..Len(generateSchema) : generateSchema[j].unique}}

\* BaseDocument.create(data): the first use of the class creates its
\* indexes, then the instance is built from the data
Create(d, data) ==
    /\ d = NextSlot
    /\ indexesCreated' = TRUE
    /\ indexes' = IF indexesCreated THEN indexes ELSE _createIndexesOnce
    /\ IF UnknownIn(data) # {} /\ OnUnknownThrows(behavior)
       THEN /\ lastCreate' = [outcome |-> "threw", slot |-> d, data |-> data, behavior |-> behavior]
            /\ UNCHANGED <<live, heap>>
       ELSE /\ lastCreate' = [outcome |-> "instance", slot |-> d, data |-> data, behavior |-> behavior]
            /\ live' = live \cup {d}
            /\ heap' = [heap EXCEPT ![d] = _fromData(data, behavior)]
    /\ UNCHANGED <<otherVars, popVars, behavior, lastSet, rejecting, handled, saveVars, dbVars>>

setUnknownDataKeyBehavior(b) ==
    /\ behavior' = NormalizeBehavior(b)
    /\ lastSet' = b
    /\ UNCHANGED <<otherVars, popVars, rejecting, indexes, indexesCreated, docVars, saveVars, dbVars>>

Settled(d) == pc[d] \in {"idle", "resolved", "rejected"}

\* the application assigns a field of an instance between two saves
SetField(d, k, value) ==
    /\ d \in live
    /\ Settled(d)
    /\ k \in SchemaKeys \ {"_id"}
    /\ heap[d][k] # value
    /\ heap' = [heap EXCEPT ![d][k] = value]
    /\ UNCHANGED <<otherVars, popVars, classVars, live, lastCreate, handled, saveVars, dbVars>>

\* the application presets a custom _id on a document that has none
PresetId(d) ==
    /\ d \in live
    /\ Settled(d)
    /\ heap[d]["_id"] = Null
    /\ heap' = [heap EXCEPT ![d]["_id"] = CustomId]
    /\ UNCHANGED <<otherVars, popVars, classVars, live, lastCreate, handled, saveVars, dbVars>>

(***************************************************************************)
(* Document.save, one action per promise callback                          *)
(***************************************************************************)
Reject(d, r) ==
    /\ pc' = [pc EXCEPT ![d] = "rejected"]
    /\ reason' = [reason EXCEPT ![d] = r]

\* save() is called: the preValidate hooks are invoked
SaveCall(d) ==
    /\ d \in live
    /\ Settled(d)
    /\ saves < MaxSaves
    /\ saves' = saves + 1
    /\ LET calls == _getHookPromises(heap[d], "preValidate")
       IN /\ log' = [log EXCEPT ![d] = calls]
          /\ pend' = [pend EXCEPT ![d] = Rejections(calls)]
    /\ pc' = [pc EXCEPT ![d] = "preValidate"]
    /\ reason' = [reason EXCEPT ![d] = NoReason]
    /\ idAtCall' = [idAtCall EXCEPT ![d] = heap[d]["_id"]]
    /\ wrote' = [wrote EXCEPT ![d] = FALSE]
    /\ UNCHANGED <<otherVars, popVars, classVars, docVars, payload, saveId, dbResult, failedBefore, dbVars>>

\* the preValidate promises are settled: validate, canonicalize, then the
\* postValidate hooks are invoked
AfterPreValidate(d) ==
    /\ pc[d] = "preValidate"
    /\ IF pend[d] # {}
       THEN /\ \E r \in pend[d] : Reject(d, r)
            /\ UNCHANGED <<heap, log, pend, failedBefore>>
       ELSE LET res == validate(heap[d])
                calls == _getHookPromises(heap[d], "postValidate")
            IN IF res[2] # "ok"
               THEN /\ Reject(d, ValidationError(res[1], res[2]))
                    /\ log' = [log EXCEPT ![d] = @ \o << <<"parent", "validate">> >>]
                    /\ failedBefore' = [failedBefore EXCEPT ![d] = TRUE]
                    /\ UNCHANGED <<heap, pend>>
               ELSE /\ heap' = [heap EXCEPT ![d] = canonicalize(heap[d])]
                    /\ log' = [log EXCEPT ![d] = @ \o << <<"parent", "validate">>,
                                                         <<"parent", "canonicalize">> >> \o calls]
                    /\ pend' = [pend EXCEPT ![d] = Rejections(calls)]
                    /\ pc' = [pc EXCEPT ![d] = "postValidate"]
                    /\ UNCHANGED <<reason, failedBefore>>
    /\ UNCHANGED <<otherVars, popVars, classVars, live, lastCreate, handled, payload, saveId, dbResult,
                   idAtCall, wrote, saves, dbVars>>

\* the postValidate promises are settled: the preSave hooks are invoked
AfterPostValidate(d) ==
    /\ pc[d] = "postValidate"
    /\ IF pend[d] # {}
       THEN /\ \E r \in pend[d] : Reject(d, r)
            /\ UNCHANGED <<log, pend>>
       ELSE LET calls == _getHookPromises(heap[d], "preSave")
            IN /\ log' = [log EXCEPT ![d] = @ \o calls]
               /\ pend' = [pend EXCEPT ![d] = Rejections(calls)]
               /\ pc' = [pc EXCEPT ![d] = "preSave"]
               /\ UNCHANGED reason
    /\ UNCHANGED <<otherVars, popVars, classVars, docVars, payload, saveId, dbResult, idAtCall, wrote,
                   failedBefore, saves, dbVars>>

\* the preSave promises are settled: the payload is built and handed to
\* DB().save together with the current _id
AfterPreSave(d) ==
    /\ pc[d] = "preSave"
    /\ IF pend[d] # {}
       THEN /\ \E r \in pend[d] : Reject(d, r)
            /\ UNCHANGED <<payload, saveId>>
       ELSE /\ payload' = [payload EXCEPT ![d] = docToSave(heap[d])]
            /\ saveId' = [saveId EXCEPT ![d] = heap[d]["_id"]]
            /\ pc' = [pc EXCEPT ![d] = "dbSave"]
            /\ UNCHANGED reason
    /\ UNCHANGED <<otherVars, popVars, classVars, docVars, log, pend, dbResult, idAtCall, wrote,
                   failedBefore, saves, dbVars>>

\* NeDbClient.save: insert when the id is null, else update with upsert
DbSave(d) ==
    /\ pc[d] = "dbSave"
    /\ IF saveId[d] = Null
       THEN /\ nextId <= MaxIds
            /\ LET rec == NewRecord(NativeId(nextId), payload[d])
               IN IF UniqueOk(rec, store)
                  THEN /\ store' = store \cup {rec}
                       /\ nextId' = nextId + 1
                       /\ dbResult' = [dbResult EXCEPT ![d] = NativeId(nextId)]
                       /\ wrote' = [wrote EXCEPT ![d] = TRUE]
                       /\ log' = [log EXCEPT ![d] = @ \o << <<"store", "persist">> >>]
                       /\ pc' = [pc EXCEPT ![d] = "adopt"]
                       /\ UNCHANGED reason
                  ELSE /\ Reject(d, UniqueViolated)
                       /\ UNCHANGED <<store, nextId, dbResult, wrote, log>>
       ELSE LET old == RecordsWithId(saveId[d])
                rec == IF old = {} THEN NewRecord(saveId[d], payload[d])
                       ELSE SetValues(CHOOSE r \in old : TRUE, payload[d])
            IN IF UniqueOk(rec, store \ old)
               THEN /\ store' = (store \ old) \cup {rec}
                    /\ dbResult' = [dbResult EXCEPT ![d] = Num(1)]
                    /\ wrote' = [wrote EXCEPT ![d] = TRUE]
                    /\ log' = [log EXCEPT ![d] = @ \o << <<"store", "persist">> >>]
                    /\ pc' = [pc EXCEPT ![d] = "adopt"]
                    /\ UNCHANGED <<reason, nextId>>
               ELSE /\ Reject(d, UniqueViolated)
                    /\ UNCHANGED <<store, nextId, dbResult, wrote, log>>
    /\ UNCHANGED <<otherVars, popVars, classVars, docVars, pend, payload, saveId, idAtCall, failedBefore, saves>>

\* the id the storage client resolved with is adopted if _id is still null
\* (variant AdoptId_Always: the result is assigned whatever _id holds)
AdoptId_Always(d) ==
    /\ pc[d] = "adopt"
    /\ heap' = [heap EXCEPT ![d]["_id"] = dbResult[d]]
    /\ pc' = [pc EXCEPT ![d] = "postSave"]
    /\ UNCHANGED <<otherVars, popVars, classVars, live, lastCreate, handled, log, pend, reason, payload,
                   saveId, dbResult, idAtCall, wrote, failedBefore, saves, dbVars>>
AdoptId(d) ==
    /\ pc[d] = "adopt"
    /\ heap' = [heap EXCEPT ![d]["_id"] = IF @ = Null THEN dbResult[d] ELSE @]
    /\ pc' = [pc EXCEPT ![d] = "postSave"]
    /\ UNCHANGED <<otherVars, popVars, classVars, live, lastCreate, handled, log, pend, reason, payload,
                   saveId, dbResult, idAtCall, wrote, failedBefore, saves, dbVars>>

\* the postSave hooks are invoked
InvokePostSave(d) ==
    /\ pc[d] = "postSave"
    /\ LET calls == _getHookPromises(heap[d], "postSave")
       IN /\ log' = [log EXCEPT ![d] = @ \o calls]
          /\ pend' = [pend EXCEPT ![d] = Rejections(calls)]
    /\ pc' = [pc EXCEPT ![d] = "awaitPostSave"]
    /\ UNCHANGED <<otherVars, popVars, classVars, docVars, reason, payload, saveId, dbResult, idAtCall,
                   wrote, failedBefore, saves, dbVars>>

\* the postSave promises are settled: save() resolves with the document
AfterPostSave(d) ==
    /\ pc[d] = "awaitPostSave"
    /\ IF pend[d] # {}
       THEN \E r \in pend[d] : Reject(d, r)
       ELSE /\ pc' = [pc EXCEPT ![d] = "resolved"]
            /\ UNCHANGED reason
    /\ UNCHANGED <<otherVars, popVars, classVars, docVars, log, pend, payload, saveId, dbResult, idAtCall,
                   wrote, failedBefore, saves, dbVars>>

SaveStep(d) ==
    \/ AfterPreValidate(d)
    \/ AfterPostValidate(d)
    \/ AfterPreSave(d)
    \/ DbSave(d)
    \/ AdoptId(d)
    \/ InvokePostSave(d)
    \/ AfterPostSave(d)

(***************************************************************************)
(* Class-level operations                                                  *)
(***************************************************************************)
\* Document.deleteOne: the storage client removes one matching record
deleteOne(r) ==
    /\ r \in store
    /\ store' = store \ {r}
    /\ UNCHANGED <<otherVars, popVars, classVars, docVars, saveVars, nextId>>

\* Document.findOne with a query that matches record r: the instance is
\* built from the record
findOne(d, r) ==
    /\ d = NextSlot
    /\ r \in store
    /\ ~(UnknownIn(r) # {} /\ OnUnknownThrows(behavior))
    /\ live' = live \cup {d}
    /\ heap' = [heap EXCEPT ![d] = _fromData(r, behavior)]
    /\ handled' = UnknownIn(r)
    /\ UNCHANGED <<otherVars, popVars, classVars, lastCreate, saveVars, dbVars>>

(***************************************************************************)
(* Deleting: instance.delete() and the class-level removals                *)
(***************************************************************************)
DeleteHookNames == {"preDelete", "postDelete"}
DeleteHooks == {"child", "parent"} \X DeleteHookNames

InitNoDelete ==
    /\ delPc = [d \in Slots |-> "idle"]
    /\ delLog = [d \in Slots |-> <<>>]
    /\ delPend = [d \in Slots |-> {}]
    /\ delReason = [d \in Slots |-> NoReason]
    /\ delRet = [d \in Slots |-> 0]
    /\ deletes = 0

\* delLog after the hooks of instance d were invoked
Invoked(d, calls) == [delLog EXCEPT ![d] = @ \o calls]

\* delete() is called: the preDelete hooks are invoked
DeleteCall(d) ==
    /\ d \in live
    /\ delPc[d] \in {"idle", "resolved", "rejected"}
    /\ deletes < MaxCalls
    /\ deletes' = deletes + 1
    /\ LET calls == _getHookPromises(heap[d], "preDelete")
       IN /\ delLog' = Invoked(d, calls)
          /\ delPend' = [delPend EXCEPT ![d] = Rejections(calls)]
    /\ delPc' = [delPc EXCEPT ![d] = "preDelete"]
    /\ delReason' = [delReason EXCEPT ![d] = NoReason]
    /\ UNCHANGED <<laterVars, schemaVars, callVars, classVars, docVars, saveVars, dbVars, popVars, delRet>>

\* the preDelete promises are settled: DB().delete(collection, _id) is called
AfterPreDelete(d) ==
    /\ delPc[d] = "preDelete"
    /\ IF delPend[d] # {}
       THEN /\ \E r \in delPend[d] : delReason' = [delReason EXCEPT ![d] = r]
            /\ delPc' = [delPc EXCEPT ![d] = "rejected"]
       ELSE /\ delPc' = [delPc EXCEPT ![d] = "dbDelete"]
            /\ UNCHANGED delReason
    /\ UNCHANGED <<laterVars, schemaVars, callVars, classVars, docVars, saveVars, dbVars, popVars, delLog,
                   delPend, delRet, deletes>>

\* NeDbClient.delete: nothing for a null or undefined id, else the record
\* with that id is removed; then the postDelete hooks are invoked
\* (variant DbDelete_One: resolves with 1 whatever was removed)
DbDelete_One(d) ==
    /\ delPc[d] = "dbDelete"
    /\ LET id == heap[d]["_id"]
           gone == IF id \in {Null, Undef} THEN {} ELSE RecordsWithId(id)
           calls == _getHookPromises(heap[d], "postDelete")
       IN /\ store' = store \ gone
          /\ delRet' = [delRet EXCEPT ![d] = 1]
          /\ delLog' = Invoked(d, calls)
          /\ delPend' = [delPend EXCEPT ![d] = Rejections(calls)]
    /\ delPc' = [delPc EXCEPT ![d] = "postDelete"]
    /\ UNCHANGED <<laterVars, schemaVars, callVars, classVars, docVars, saveVars, popVars, nextId,
                   delReason, deletes>>
DbDelete(d) ==
    /\ delPc[d] = "dbDelete"
    /\ LET id == heap[d]["_id"]
           gone == IF id \in {Null, Undef} THEN {} ELSE RecordsWithId(id)
           calls == _getHookPromises(heap[d], "postDelete")
       IN /\ store' = store \ gone
          /\ delRet' = [delRet EXCEPT ![d] = Cardinality(gone)]
          /\ delLog' = Invoked(d, calls)
          /\ delPend' = [delPend EXCEPT ![d] = Rejections(calls)]
    /\ delPc' = [delPc EXCEPT ![d] = "postDelete"]
    /\ UNCHANGED <<laterVars, schemaVars, callVars, classVars, docVars, saveVars, popVars, nextId,
                   delReason, deletes>>

\* the postDelete promises are settled: delete() resolves with the number
\* of removed records, or rejects
AfterPostDelete(d) ==
    /\ delPc[d] = "postDelete"
    /\ IF delPend[d] # {}
       THEN /\ \E r \in delPend[d] : delReason' = [delReason EXCEPT ![d] = r]
            /\ delPc' = [delPc EXCEPT ![d] = "rejected"]
       ELSE /\ delPc' = [delPc EXCEPT ![d] = "resolved"]
            /\ UNCHANGED delReason
    /\ UNCHANGED <<laterVars, schemaVars, callVars, classVars, docVars, saveVars, dbVars, popVars, delLog,
                   delPend, delRet, deletes>>

DeleteStep(d) ==
    \/ AfterPreDelete(d)
    \/ DbDelete(d)
    \/ AfterPostDelete(d)

\* Document.deleteMany(query): every record the query matches is removed
deleteMany_ViaInstances(matched) ==
    /\ matched \subseteq store
    /\ store' = store \ matched
    /\ delLog' = [d \in Slots |->
                     IF d \in live /\ \E r \in matched : r["_id"] = heap[d]["_id"]
                     THEN delLog[d] \o _getHookPromises(heap[d], "preDelete")
                     ELSE delLog[d]]
    /\ UNCHANGED <<laterVars, schemaVars, callVars, popVars, classVars, docVars, saveVars, nextId,
                   delPc, delPend, delReason, delRet, deletes>>
deleteMany(matched) ==
    /\ matched \subseteq store
    /\ store' = store \ matched
    /\ UNCHANGED <<otherVars, popVars, classVars, docVars, saveVars, nextId>>

\* Document.findOneAndDelete(query): options.multi = false, one record the
\* query matches is removed
findOneAndDelete(r) ==
    /\ r \in store
    /\ store' = store \ {r}
    /\ UNCHANGED <<otherVars, popVars, classVars, docVars, saveVars, nextId>>

\* Document.clearCollection(): deleteMany with the query {}
clearCollection ==
    /\ store' = {}
    /\ UNCHANGED <<otherVars, popVars, classVars, docVars, saveVars, nextId>>

(***************************************************************************)
(* Index bootstrap.  The class Account declares the fields name, email and *)
(* nick, each as a bare type or as an options object that may carry the    *)
(* flag unique or the flag indexed.                                        *)
(***************************************************************************)
AccountKeys == <<"name", "email", "nick">>
Declarations == {"bare", "typed", "unique", "indexed"}

\* the properties of the options object of a declaration
PropsOf(declaration) ==
    CASE declaration = "unique" -> {"type", "unique"}
      [] declaration = "indexed" -> {"type", "indexed"}
      [] OTHER -> {"type"}

ALLOWED_SCHEMA_PROPS ==
    {"type", "validate", "default", "unique", "private", "required", "min", "max", "choices",
     "match"}

\* whether assertValidSchemaEntry returns the entry (it throws otherwise);
\* a bare type is checked for its type only
assertValidSchemaEntry(declaration) ==
    declaration = "bare" \/ PropsOf(declaration) \subseteq ALLOWED_SCHEMA_PROPS

\* whether the schema of the class compiles
Compiles(source) == \A i \in 1..Len(AccountKeys) : assertValidSchemaEntry(source[AccountKeys[i]])

\* the createIndex requests of _createIndexesOnce, as <<field, unique>>
CreateIndexes(source) ==
    LET flagged == SelectSeq(AccountKeys, LAMBDA k : source[k] \in {"unique", "indexed"})
    IN [i \in 1..Len(flagged) |-> <<flagged[i], source[flagged[i]] = "unique">>]

InitNoIndex ==
    /\ decl = [k \in {"name", "email", "nick"} |-> "bare"]
    /\ built = "no"
    /\ requests = <<>>
    /\ uses = 0


\* the class is used (create, find, ...): the first use compiles the schema
\* and, just after, asks for the indexes; a compilation that threw is
\* repeated by the next use
UseClass ==
    /\ uses < MaxUses
    /\ uses' = uses + 1
    /\ IF built = "ok"
       THEN UNCHANGED <<built, requests>>
       ELSE IF Compiles(decl)
            THEN /\ built' = "ok"
                 /\ requests' = requests \o CreateIndexes(decl)
            ELSE /\ built' = "threw"
                 /\ UNCHANGED requests
    /\ UNCHANGED <<decl, opVars, cliVars, lastVars, schemaVars, callVars, delVars, classVars, docVars, saveVars,
                   dbVars, popVars>>

(***************************************************************************)
(* The payload of save().  The class Order declares                        *)
(*   pet: Pet, pets: [Pet], contents: Coffee, cups: [Coffee],              *)
(*   name: String, tags: [String]                                          *)
(* with Pet a Document class and Coffee an EmbeddedDocument class.         *)
(***************************************************************************)
OrderKeys == {"pet", "pets", "contents", "cups", "name", "tags"}
\* the fields that hold an array
OrderArrays == {"pets", "cups", "tags"}

\* an instance of the Document class Pet whose _id is NativeId(n)
Doc(n) == V("document", n, "")
isDocument(v) == v.t = "document"
isReferenceable(v) == isDocument(v) \/ isNativeId(v)
\* the property _id of a value
IdOf(v) == IF isDocument(v) THEN NativeId(v.n) ELSE Undef

\* _toData({_id: false}) of an Order
OrderToData(doc) ==
    [k \in OrderKeys |->
        IF k \in OrderArrays
        THEN IF Len(doc[k]) > 0 /\ isEmbeddedDocument(doc[k][1])
             THEN [i \in 1..Len(doc[k]) |-> Plain]
             ELSE doc[k]
        ELSE IF isEmbeddedDocument(doc[k]) THEN Plain ELSE doc[k]]

\* save(): "Reference our objects"
ReferenceObjects(doc, toUpdate) ==
    [k \in OrderKeys |->
        IF k \in OrderArrays
        THEN IF Len(doc[k]) > 0 /\ isReferenceable(doc[k][1])
             THEN [i \in 1..Len(doc[k]) |->
                     IF isNativeId(doc[k][i]) THEN doc[k][i] ELSE IdOf(doc[k][i])]
             ELSE toUpdate[k]
        ELSE IF isReferenceable(doc[k])
             THEN (IF isNativeId(doc[k]) THEN doc[k] ELSE IdOf(doc[k]))
             ELSE toUpdate[k]]

\* save(): "Replace EmbeddedDocument references with just their data"
ReplaceEmbeddeds(doc, toUpdate) ==
    [k \in OrderKeys |->
        IF k \in OrderArrays
        THEN IF Len(doc[k]) > 0 /\ isEmbeddedDocument(doc[k][1])
             THEN [i \in 1..Len(doc[k]) |-> Plain]
             ELSE toUpdate[k]
        ELSE IF isEmbeddedDocument(doc[k]) THEN Plain ELSE toUpdate[k]]

\* the object save() hands to DB().save
toUpdateOf(doc) == ReplaceEmbeddeds(doc, ReferenceObjects(doc, OrderToData(doc)))

\* the sequences of at most MaxElems elements of S
SeqsOf(S) == UNION {[1..n -> S] : n \in 0..MaxElems}

\* the Orders that pass validate()
ValidOrders ==
    [pet : {Undef, NativeId(1), Doc(1)},
     pets : SeqsOf({NativeId(1), Doc(1), Doc(2)}),
     contents : {Undef, Emb},
     cups : SeqsOf({Emb}),
     name : {Undef, Str("x"), NativeId(1)},
     tags : SeqsOf({Str("x"), NativeId(1)})]

\* save() of the subject has passed its hooks and validation and builds the
\* payload
BuildPayload ==
    /\ outcome[1] = ""
    /\ outcome' = <<"payload", toUpdateOf(subject)>>
    /\ UNCHANGED <<subject, schemaVars, delVars, laterVars, classVars, docVars, saveVars, dbVars,
                   popVars>>

(***************************************************************************)
(* Errors.  An operation is the chain of steps its promise chain runs; one *)
(* of the steps may raise an error.                                        *)
(***************************************************************************)
Operations ==
    {"save", "delete", "find", "findOne", "findOneAndUpdate", "findOneAndDelete", "count"}

Step(kind, name) == <<kind, name>>

\* the steps of an operation that can raise an error, in the order they run;
\* found tells whether the query matches a record, populate whether the
\* references are to be loaded
StepsOf(call) ==
    CASE call.op = "save" ->
            << Step("hook", "preValidate"), Step("validation", "validate"),
               Step("hook", "postValidate"), Step("hook", "preSave"),
               Step("storage", "save"), Step("hook", "postSave") >>
      [] call.op = "delete" ->
            << Step("hook", "preDelete"), Step("storage", "delete"),
               Step("hook", "postDelete") >>
      [] call.op = "find" ->
            << Step("storage", "find") >>
               \o (IF call.populate THEN << Step("storage", "populate") >> ELSE <<>>)
      [] call.op = "findOne" ->
            << Step("storage", "findOne") >>
               \o (IF call.found /\ call.populate THEN << Step("storage", "populate") >>
                   ELSE <<>>)
      [] call.op = "findOneAndUpdate" ->
            << Step("storage", "findOne") >>
               \o (IF call.found
                   THEN << Step("storage", "update"), Step("storage", "findOne again") >>
                           \o (IF call.populate THEN << Step("storage", "populate") >>
                               ELSE <<>>)
                   ELSE <<>>)
      [] call.op = "findOneAndDelete" -> << Step("storage", "remove") >>
      [] OTHER -> << Step("storage", "count") >>

\* what becomes of an error raised by step i of the operation:
\*   "reject"  - the returned promise is rejected with it;
\*   "swallow" - a catch handler logs it and the promise resolves with
\*               what the handler returned (undefined);
\*   "lost"    - nothing settles the returned promise
OnError(call, i) ==
    CASE call.op = "findOne" -> "swallow"
      [] call.op = "findOneAndUpdate" /\ i = 1 -> "lost"
      [] OTHER -> "reject"

\* what the operation resolves with
ResultOf(call) ==
    CASE call.op \in {"findOne", "findOneAndUpdate"} -> IF call.found THEN "document" ELSE "null"
      [] call.op = "find" -> "documents"
      [] call.op = "save" -> "document"
      [] OTHER -> "number"

NoCall == [op |-> "", failing |-> 0, found |-> FALSE, populate |-> FALSE]
NoError == Step("", "")
InitNoOperation ==
    /\ opCall = NoCall
    /\ opPos = 0
    /\ opErr = NoError
    /\ opEnd = <<"none", "">>


\* the application calls the operation; failing is the step that will raise
\* an error (0: none)
CallOperation(call) ==
    /\ opEnd[1] = "none"
    /\ call.failing \in 0..Len(StepsOf(call))
    /\ opCall' = call
    /\ opPos' = 1
    /\ opEnd' = <<"pending", "">>
    /\ UNCHANGED <<opErr, idxVars, cliVars, lastVars, schemaVars, callVars, delVars, classVars, docVars, saveVars,
                   dbVars, popVars>>

\* the next step of the operation runs
StepOperation ==
    /\ opPos \in 1..Len(StepsOf(opCall))
    /\ IF opPos = opCall.failing
       THEN /\ opErr' = StepsOf(opCall)[opPos]
            /\ opPos' = 0
            /\ opEnd' = CASE OnError(opCall, opPos) = "reject" -> <<"rejected", StepsOf(opCall)[opPos][2]>>
                           [] OnError(opCall, opPos) = "swallow" -> <<"resolved", "undefined">>
                           [] OTHER -> opEnd
       ELSE /\ UNCHANGED opErr
            /\ IF opPos = Len(StepsOf(opCall))
               THEN /\ opPos' = 0
                    /\ opEnd' = <<"resolved", ResultOf(opCall)>>
               ELSE /\ opPos' = opPos + 1
                    /\ UNCHANGED opEnd
    /\ UNCHANGED <<opCall, idxVars, cliVars, lastVars, schemaVars, callVars, delVars, classVars, docVars, saveVars,
                   dbVars, popVars>>

(***************************************************************************)
(* The storage client (lib/client.js, lib/nedbclient.js)                   *)
(***************************************************************************)
InitNoClient ==
    /\ dbClient = 0
    /\ Datastore = ""
    /\ clients = 0
    /\ tries = 0
    /\ lastTry = [call |-> "", result |-> ""]
    /\ touched = 0


\* setClientInstance and the constructor of DatabaseClient: whether a
\* client is set already
AlreadySet_Never(c) == FALSE
AlreadySet(c) == c # 0

\* getClientInstance: the client, or the error it throws
getClientInstance(c) == IF c = 0 THEN "connectFirst" ELSE "ok"

Tried(call, how) ==
    /\ tries < MaxTries
    /\ tries' = tries + 1
    /\ lastTry' = [call |-> call, result |-> how]
    /\ UNCHANGED <<idxVars, opVars, lastVars, schemaVars, callVars, delVars, classVars, docVars, saveVars,
                   dbVars, popVars>>

\* new DatabaseClient(url): throws when a client is set, else the new
\* instance becomes the client
Construct ==
    /\ IF AlreadySet(dbClient)
       THEN /\ Tried("construct", "alreadySet")
            /\ UNCHANGED <<dbClient, clients>>
       ELSE /\ Tried("construct", "ok")
            /\ clients' = clients + 1
            /\ dbClient' = clients + 1
    /\ UNCHANGED <<Datastore, touched>>

\* setClientInstance(client), called by the application with the client
\* instance it holds (given = TRUE) or with something that is no
\* DatabaseClient
setClientInstance(given) ==
    /\ given => dbClient # 0
    /\ IF AlreadySet(dbClient)
       THEN Tried("setClientInstance", "alreadySet")
       ELSE Tried("setClientInstance", "invalidClient")
    /\ UNCHANGED <<dbClient, clients, Datastore, touched>>

DatastoreClasses == {"nedb", "fork", "noDatastore"}

\* connect(url, datastoreClass) of the NeDB client
connect(urlOk, class) ==
    IF ~urlOk
    THEN /\ Tried("connect", "badUrl")
         /\ UNCHANGED <<dbClient, clients, Datastore, touched>>
    ELSE IF class = "noDatastore"
    THEN /\ Tried("connect", "invalidDatastore")
         /\ UNCHANGED <<dbClient, clients, Datastore, touched>>
    ELSE IF Datastore # "" /\ class # Datastore
    THEN /\ Tried("connect", "datastoreChanged")
         /\ UNCHANGED <<dbClient, clients, Datastore, touched>>
    ELSE /\ Datastore' = class
         /\ IF AlreadySet(dbClient)
            THEN /\ Tried("connect", "alreadySet")
                 /\ UNCHANGED <<dbClient, clients>>
            ELSE /\ Tried("connect", "ok")
                 /\ clients' = clients + 1
                 /\ dbClient' = clients + 1
         /\ UNCHANGED touched

PersistenceOps ==
    {"create", "save", "delete", "deleteOne", "deleteMany", "find", "findOne",
     "findOneAndUpdate", "findOneAndDelete", "count", "clearCollection"}

\* a persistence operation: DB() throws while no client is set, else the
\* operation reaches the datastore (create only asks for the id type)
Persist(op) ==
    /\ Tried(op, getClientInstance(dbClient))
    /\ touched' = IF getClientInstance(dbClient) = "ok" /\ op # "create"
                  THEN touched + 1 ELSE touched
    /\ UNCHANGED <<dbClient, clients, Datastore>>

(***************************************************************************)
(* toJSON.  The class Member declares                                      *)
(*   secret: {type: String, private: true}, address: Address,              *)
(*   addresses: [Address], friend: Member, friends: [Member]               *)
(* and the embedded class Address declares pin: {type: String,             *)
(* private: true}.  An object is a record: kind tells what it is, hasPriv  *)
(* whether it has the private key of its class, priv the value under it.   *)
(***************************************************************************)
MemberKeys == {"secret", "address", "addresses", "friend", "friends"}
MemberArrays == {"addresses", "friends"}
MemberPrivate == {"secret"}

Obj(kind, hasPriv, priv) == [kind |-> kind, hasPriv |-> hasPriv, priv |-> priv]
NoValue == Obj("undefined", FALSE, "")
RawId == Obj("id", FALSE, "")
StrVal(str) == Obj("string", FALSE, str)
\* an Address instance / a Member instance holding priv under the private key
AddressOf(priv) == Obj("Address", TRUE, priv)
MemberOf(priv) == Obj("Member", TRUE, priv)

\* whether the value is an object with a toJSON method
hasToJSON(v) == v.kind \in {"Address", "Member"}

\* _toData() of an embedded instance: every own key, the private one too
EmbeddedToData(v) == Obj("plain", v.hasPriv, v.priv)

\* _toData({_id: true}) of a Member
MemberToData(doc) ==
    [k \in MemberKeys |->
        IF k \in MemberArrays
        THEN IF Len(doc[k]) > 0 /\ doc[k][1].kind = "Address"
             THEN [i \in 1..Len(doc[k]) |-> EmbeddedToData(doc[k][i])]
             ELSE doc[k]
        ELSE IF doc[k].kind = "Address" THEN EmbeddedToData(doc[k]) ELSE doc[k]]

\* toJSON() of a nested instance (its own fields hold no further objects):
\* the private key is deleted
NestedToJSON(v) == Obj("json", FALSE, "")

\* the value is deleted from the output
Removed == Obj("deleted", FALSE, "")

toJSON(doc) ==
    LET values == MemberToData(doc)
    IN [k \in MemberKeys |->
           IF k \in MemberPrivate THEN Removed
           ELSE IF k \in MemberArrays
           THEN [i \in 1..Len(values[k]) |->
                   IF hasToJSON(values[k][i]) THEN NestedToJSON(values[k][i])
                   ELSE values[k][i]]
           ELSE IF hasToJSON(values[k]) THEN NestedToJSON(values[k])
           ELSE values[k]]

Members ==
    [secret : {NoValue, StrVal("s3cret")},
     address : {NoValue, AddressOf(""), AddressOf("1234")},
     addresses : SeqsOf({AddressOf(""), AddressOf("1234")}),
     friend : {NoValue, RawId, MemberOf(""), MemberOf("pw")},
     friends : SeqsOf({RawId, MemberOf(""), MemberOf("pw")})]

\* toJSON() of the subject is called
CallToJSON ==
    /\ outcome[1] = ""
    /\ outcome' = <<"json", toJSON(subject)>>
    /\ UNCHANGED <<subject, schemaVars, delVars, laterVars, classVars, docVars, saveVars, dbVars,
                   popVars>>

(***************************************************************************)
(* Document.purgeObsoleteProperties                                        *)
(***************************************************************************)
Purges == 1..MaxPurges

InitNoPurge ==
    /\ purgePc = [p \in Purges |-> "idle"]
    /\ purgeOld = [p \in Purges |-> ""]
    /\ purgeLeft = 0
    /\ configured = "throw"

InitNoHooks ==
    /\ hkOp = ""
    /\ hkPos = 0
    /\ hkAsync = {}
    /\ hkLog = <<>>
    /\ hkOpen = {}

SaveCalls == 1..MaxSaves

InitNoOverlap ==
    /\ ovPc = [c \in SaveCalls |-> "idle"]
    /\ ovArg = [c \in SaveCalls |-> 0]
    /\ ovRes = [c \in SaveCalls |-> 0]
    /\ ovId = 0
    /\ ovStore = {}
    /\ ovUnique = FALSE

InitEnd == InitNoHooks /\ InitNoOverlap
InitLast == InitNoPurge /\ InitEnd
InitLater == InitNoIndex /\ InitNoOperation /\ InitNoClient /\ InitLast

\* setUnknownDataKeyBehavior(b), called inside an operation
SetBehavior(b) ==
    /\ behavior' = NormalizeBehavior(b)
    /\ lastSet' = b

\* purgeObsoleteProperties(propNames) is called: invalid names throw before
\* anything else; else the current behaviour is remembered, 'ignore' is set
\* and the first findOneAndUpdate is awaited
PurgeCall(p, namesOk) ==
    /\ purgePc[p] = "idle"
    /\ IF ~namesOk
       THEN /\ purgePc' = [purgePc EXCEPT ![p] = "rejected"]
            /\ UNCHANGED <<purgeOld, behavior, lastSet>>
       ELSE /\ purgeOld' = [purgeOld EXCEPT ![p] = behavior]
            /\ SetBehavior("ignore")
            /\ purgePc' = [purgePc EXCEPT ![p] = "awaiting"]
    /\ UNCHANGED <<purgeLeft, configured, endVars, idxVars, opVars, cliVars, schemaVars, callVars, delVars,
                   rejecting, indexes, indexesCreated, docVars, saveVars, dbVars, popVars>>

\* the awaited findOneAndUpdate settles: with a document (the loop goes on),
\* with null (the loop ends) or with an error; on leaving the loop the
\* finally block sets the remembered behaviour
PurgeStep(p, fails) ==
    /\ purgePc[p] = "awaiting"
    /\ IF fails
       THEN /\ SetBehavior(purgeOld[p])
            /\ purgePc' = [purgePc EXCEPT ![p] = "rejected"]
            /\ UNCHANGED purgeLeft
       ELSE IF purgeLeft > 0
       THEN /\ purgeLeft' = purgeLeft - 1
            /\ UNCHANGED <<purgePc, behavior, lastSet>>
       ELSE /\ SetBehavior(purgeOld[p])
            /\ purgePc' = [purgePc EXCEPT ![p] = "resolved"]
            /\ UNCHANGED purgeLeft
    /\ UNCHANGED <<purgeOld, configured, endVars, idxVars, opVars, cliVars, schemaVars, callVars, delVars,
                   rejecting, indexes, indexesCreated, docVars, saveVars, dbVars, popVars>>

(***************************************************************************)
(* Hooks of embedded documents.  The class Cup (a Document) declares       *)
(*   contents: Coffee, sides: [Sugar]                                      *)
(* and the embedded class Coffee declares bean: Bean, an embedded class    *)
(* again.  The instance cup holds one Coffee (which holds one Bean) and    *)
(* one Sugar.                                                              *)
(***************************************************************************)
HkNodes == {"cup", "coffee", "sugar", "bean"}

\* _getEmbeddeds: the values of the embedded-typed fields of the document
\* itself, single or array, in the order of the schema
Embeddeds(n) ==
    IF n = "cup" THEN <<"coffee", "sugar">>
    ELSE IF n = "coffee" THEN <<"bean">>
    ELSE <<>>

\* the embedded documents reachable from a document at any depth
RECURSIVE Reachable(_)
Reachable(n) ==
    Range(Embeddeds(n)) \cup UNION {Reachable(c) : c \in Range(Embeddeds(n))}

\* the hook phases of save() and delete()
HkPhases(op) ==
    IF op = "save" THEN <<"preValidate", "postValidate", "preSave", "postSave">>
    ELSE <<"preDelete", "postDelete">>

\* _getHookPromises(hookName) of document n: the hook method is invoked on
\* each of its embeddeds and then on the document
HookCalls(n) == Embeddeds(n) \o <<n>>

\* the events of invoking the hooks one after the other: a hook that is a
\* plain function has ended when the next one starts, one that returns a
\* pending promise has only started
RECURSIVE HookEvents(_, _, _)
HookEvents(calls, hookName, i) ==
    IF i > Len(calls) THEN <<>>
    ELSE (IF calls[i] \in hkAsync
          THEN << <<calls[i], hookName, "start">> >>
          ELSE << <<calls[i], hookName, "start">>, <<calls[i], hookName, "end">> >>)
         \o HookEvents(calls, hookName, i + 1)

\* save() or delete() is called on the cup
HookOperation(op) ==
    /\ hkOp = ""
    /\ hkOp' = op
    /\ UNCHANGED <<hkPos, hkAsync, hkLog, hkOpen>>

\* the operation reaches its next hook phase, the promises of the phase
\* before all settled: Promise.all(this._getHookPromises(hookName))
HookPhase ==
    /\ hkOp # ""
    /\ hkOpen = {}
    /\ hkPos < Len(HkPhases(hkOp))
    /\ LET hookName == HkPhases(hkOp)[hkPos + 1]
           calls == HookCalls("cup")
       IN /\ hkLog' = hkLog \o HookEvents(calls, hookName, 1)
          /\ hkOpen' = {<<n, hookName>> : n \in Range(calls) \cap hkAsync}
    /\ hkPos' = hkPos + 1
    /\ UNCHANGED <<hkOp, hkAsync>>

\* the promise a hook returned settles
HookSettles(n, hookName) ==
    /\ <<n, hookName>> \in hkOpen
    /\ hkOpen' = hkOpen \ {<<n, hookName>>}
    /\ hkLog' = Append(hkLog, <<n, hookName, "end">>)
    /\ UNCHANGED <<hkOp, hkPos, hkAsync>>

HookFrame ==
    UNCHANGED <<ovVars, purgeVars, idxVars, opVars, cliVars, schemaVars, callVars, delVars, classVars,
                docVars, saveVars, dbVars, popVars>>

(***************************************************************************)
(* save() calls that overlap on one instance.  The instance note of the    *)
(* class Note has never been saved; save() is called on it again before    *)
(* the earlier call has settled.  Ids are numbered from 1, 0 stands for    *)
(* null.                                                                   *)
(***************************************************************************)
\* the id the datastore generates for an inserted record
FreshId == Cardinality(ovStore) + 1

\* save() is called: the hooks before the write are awaited
OverlapCall(c) ==
    /\ ovPc[c] = "idle"
    /\ ovPc' = [ovPc EXCEPT ![c] = "preSave"]
    /\ UNCHANGED <<ovArg, ovRes, ovId, ovStore, ovUnique>>

\* the hooks are settled: DB().save(collection, this._id, docToSave) is
\* called with the _id the instance holds now
OverlapDbSave(c) ==
    /\ ovPc[c] = "preSave"
    /\ ovArg' = [ovArg EXCEPT ![c] = ovId]
    /\ ovPc' = [ovPc EXCEPT ![c] = "dbSave"]
    /\ UNCHANGED <<ovRes, ovId, ovStore, ovUnique>>

\* NeDbClient.save in the datastore: insert when the id is null (a record
\* with the same value of a unique field makes it fail), else update with
\* upsert
OverlapStored(c) ==
    /\ ovPc[c] = "dbSave"
    /\ IF ovArg[c] = 0
       THEN IF ovUnique /\ ovStore # {}
            THEN /\ ovPc' = [ovPc EXCEPT ![c] = "rejected"]
                 /\ UNCHANGED <<ovRes, ovStore>>
            ELSE /\ ovStore' = ovStore \cup {FreshId}
                 /\ ovRes' = [ovRes EXCEPT ![c] = FreshId]
                 /\ ovPc' = [ovPc EXCEPT ![c] = "adopt"]
       ELSE /\ ovStore' = ovStore \cup {ovArg[c]}
            /\ ovRes' = [ovRes EXCEPT ![c] = 1]
            /\ ovPc' = [ovPc EXCEPT ![c] = "adopt"]
    /\ UNCHANGED <<ovArg, ovId, ovUnique>>

\* the awaited DB().save has resolved: if (this._id === null) this._id =
\* newId; then the postSave hooks are awaited and save() resolves
OverlapAdopt(c) ==
    /\ ovPc[c] = "adopt"
    /\ ovId' = IF ovId = 0 THEN ovRes[c] ELSE ovId
    /\ ovPc' = [ovPc EXCEPT ![c] = "postSave"]
    /\ UNCHANGED <<ovArg, ovRes, ovStore, ovUnique>>

OverlapResolve(c) ==
    /\ ovPc[c] = "postSave"
    /\ ovPc' = [ovPc EXCEPT ![c] = "resolved"]
    /\ UNCHANGED <<ovArg, ovRes, ovId, ovStore, ovUnique>>

OverlapFrame ==
    UNCHANGED <<hookVars, purgeVars, idxVars, opVars, cliVars, schemaVars, callVars, delVars,
                classVars, docVars, saveVars, dbVars, popVars>>

(***************************************************************************)
(* References.  The class User declares                                    *)
(*   pet: Pet, spare: Eye, eyes: [Eye]                                     *)
(* and the classes Pet and Eye each declare owner: User, so the references *)
(* are circular.  A reference field holds null, a raw id, or an instance   *)
(* of the referenced class; back tells what the owner field of that        *)
(* instance holds.                                                         *)
(***************************************************************************)
Classes == {"Pet", "Eye"}
Owners == 1..MaxOwners
TargetIds == 1..MaxTargets
EyeIds == 1..MaxEyes
\* the ids a reference can hold
RefIds == TargetIds \cup EyeIds

RNull == [k |-> "null", id |-> 0, back |-> "none"]
RId(i) == [k |-> "id", id |-> i, back |-> "none"]
RDoc(i, back) == [k |-> "doc", id |-> i, back |-> back]

\* the schema's reference keys, in declaration order
RefNKeys == <<"eyes">>
Ref1Keys == <<"pet", "spare">>
RefKeys == Range(RefNKeys) \cup Range(Ref1Keys)
KeyClass(key) == IF key = "pet" THEN "Pet" ELSE "Eye"

BlankUser == [pet |-> RNull, spare |-> RNull, eyes |-> <<>>]

\* the populate option: true, false or a list of field names
PTrue == [val |-> "true", fields |-> {}]
PFalse == [val |-> "false", fields |-> {}]
PList(F) == [val |-> "list", fields |-> F]

\* an options argument: absent or without a populate property (has is
\* FALSE), or carrying one
NoPopulateOption == [has |-> FALSE, populate |-> PFalse]
Options(p) == [has |-> TRUE, populate |-> p]

\* getPopulateOption
getPopulateOption(opts) ==
    IF ~opts.has \/ opts.populate = PTrue THEN PTrue
    ELSE IF opts.populate.val = "list" /\ opts.populate.fields # {}
         THEN opts.populate
         ELSE PFalse

\* BaseDocument.populate: useFields and the test that skips a key
useFields(fields) == fields.val = "list" /\ fields.fields # {}
\* (variant Selected_All: no key is skipped)
Selected_All(key, fields) == TRUE
Selected(key, fields) == ~useFields(fields) \/ key \in fields.fields

\* the property name an array element is used as: an id is its own name
IdKey(v) == IF v.k = "id" THEN v.id ELSE 0

\* the loop over the multi-reference keys: every element of every non-empty
\* array, as <<document, key, id>>, in the order the code visits them
RECURSIVE RefNVisits(_, _, _, _, _)
RefNVisits(ds, res, fields, ki, o) ==
    IF ki > Len(RefNKeys) THEN <<>>
    ELSE IF o > MaxOwners THEN RefNVisits(ds, res, fields, ki + 1, 1)
    ELSE LET key == RefNKeys[ki]
             ids == ds[o][key]
             here == IF o \in res /\ Selected(key, fields)
                     THEN [i \in 1..Len(ids) |-> <<o, key, IdKey(ids[i])>>]
                     ELSE <<>>
         IN here \o RefNVisits(ds, res, fields, ki, o + 1)

\* the loop over the single-reference keys: every field that holds a
\* native id
RECURSIVE Ref1Visits(_, _, _, _, _)
Ref1Visits(ds, res, fields, ki, o) ==
    IF ki > Len(Ref1Keys) THEN <<>>
    ELSE IF o > MaxOwners THEN Ref1Visits(ds, res, fields, ki + 1, 1)
    ELSE LET key == Ref1Keys[ki]
             here == IF o \in res /\ Selected(key, fields) /\ ds[o][key].k = "id"
                     THEN << <<o, key, ds[o][key].id>> >>
                     ELSE <<>>
         IN here \o Ref1Visits(ds, res, fields, ki, o + 1)

\* the documents and properties that wait for the target id of class c
DocsAndProps(visits, c, id) ==
    LET Waits(v) == KeyClass(v[2]) = c /\ v[3] = id
        sel == SelectSeq(visits, Waits)
    IN [i \in 1..Len(sel) |-> <<sel[i][1], sel[i][2]>>]

\* docClassToIdPopTargetMap after both loops; an id is in the map of its
\* class when one of its two lists is not empty
id2popTarget(visitsN, visits1) ==
    [c \in Classes |->
        [id \in {0} \cup RefIds |->
            [refNDocsAndProps |-> DocsAndProps(visitsN, c, id),
             ref1DocsAndProps |-> DocsAndProps(visits1, c, id)]]]

PendingIds(map, c) ==
    {id \in {0} \cup RefIds :
        map[c][id].refNDocsAndProps # <<>> \/ map[c][id].ref1DocsAndProps # <<>>}

\* the ids of a non-empty selected array are flushed
Flush(ds, res, fields) ==
    [o \in Owners |->
        [ds[o] EXCEPT !.eyes = IF o \in res /\ Selected("eyes", fields) THEN <<>> ELSE @]]

Count(seq, x) == Cardinality({i \in 1..Len(seq) : seq[i] = x})
Repeat(v, n) == [i \in 1..n |-> v]

\* the callback body for one found document: assignments to the waiting
\* single-reference fields, pushes to the waiting arrays
\* (variant ApplyFound_Once: one push per array however often it waits)
ApplyFound_Once(ds, entry, foundDoc) ==
    [o \in Owners |->
        [k \in DOMAIN ds[o] |->
            IF k \in Range(Ref1Keys)
            THEN (IF <<o, k>> \in Range(entry.ref1DocsAndProps) THEN foundDoc ELSE ds[o][k])
            ELSE ds[o][k] \o (IF <<o, k>> \in Range(entry.refNDocsAndProps)
                              THEN <<foundDoc>> ELSE <<>>)]]
ApplyFound(ds, entry, foundDoc) ==
    [o \in Owners |->
        [k \in DOMAIN ds[o] |->
            IF k \in Range(Ref1Keys)
            THEN (IF <<o, k>> \in Range(entry.ref1DocsAndProps) THEN foundDoc ELSE ds[o][k])
            ELSE ds[o][k] \o Repeat(foundDoc, Count(entry.refNDocsAndProps, <<o, k>>))]]

RECURSIVE BackFill(_, _, _, _)
BackFill(ds, map, foundDocs, i) ==
    IF i > Len(foundDocs) THEN ds
    ELSE BackFill(ApplyFound(ds, map[foundDocs[i].id], foundDocs[i]), map, foundDocs, i + 1)

\* the options populate hands to the find of a referenced class
\* (variant LoadOptions_Default: no populate property)
LoadOptions_Default == NoPopulateOption
LoadOptions == Options(PFalse)

\* Document.find of a referenced class for the ids of the map: the records
\* that exist, as instances; their own reference field is resolved only if
\* the options ask for population
TargetFind(c, ids, opts) ==
    {RDoc(i, IF getPopulateOption(opts) = PFalse THEN "id" ELSE "doc") :
        i \in ids \cap targets[c]}

\* the orders in which the storage engine can return a set of records
Orders(S) ==
    {f \in [1..Cardinality(S) -> S] : \A i, j \in 1..Cardinality(S) : f[i] = f[j] => i = j}

\* BaseDocument.populate up to the point where it awaits the finds: both
\* loops, then one find per class of the map, population disabled
PopulateStart(ds, res, fields) ==
    LET visitsN == RefNVisits(ds, res, fields, 1, 1)
        visits1 == Ref1Visits(ds, res, fields, 1, 1)
        map == id2popTarget(visitsN, visits1)
        cs == {c \in Classes : PendingIds(map, c) # {}}
    IN /\ pending' = map
       /\ docs' = Flush(ds, res, fields)
       /\ loads' = cs
       /\ finds' = [c \in Classes |-> IF c \in cs THEN 1 ELSE 0]
       /\ findOpts' = IF cs = {} THEN {} ELSE {LoadOptions}
       /\ popPc' = "loading"

NoMap == id2popTarget(<<>>, <<>>)

\* Document.find (one is 0) or Document.findOne (one is the record the
\* query matches first) of the class User is called
FindCall(one, opts) ==
    /\ popPc = "idle"
    /\ popPc' = "finding"
    /\ popOpts' = [one |-> one, has |-> opts.has, populate |-> opts.populate]
    /\ result' = {}
    /\ docs' = [o \in Owners |-> BlankUser]
    /\ pending' = NoMap
    /\ loads' = {}
    /\ finds' = [c \in Classes |-> 0]
    /\ findOpts' = {}
    /\ missing' = {}
    /\ UNCHANGED <<otherVars, classVars, docVars, saveVars, dbVars, targets, ownerRecs>>

\* the storage client returns the data: the instances are built and, unless
\* the populate option is false, populate starts
FindData ==
    /\ popPc = "finding"
    /\ LET res == IF popOpts.one = 0 THEN Owners ELSE {popOpts.one}
           ds == [o \in Owners |-> IF o \in res THEN ownerRecs[o] ELSE BlankUser]
           populate == getPopulateOption(popOpts)
       IN /\ result' = res
          /\ IF populate # PFalse
             THEN PopulateStart(ds, res, populate)
             ELSE /\ docs' = ds
                  /\ popPc' = "done"
                  /\ UNCHANGED <<pending, loads, finds, findOpts>>
    /\ UNCHANGED <<otherVars, classVars, docVars, saveVars, dbVars, targets, ownerRecs, popOpts, missing>>

\* the find of class c has returned: the callback fills the waiting slots
LoadDone(c, foundDocs) ==
    /\ popPc = "loading"
    /\ c \in loads
    /\ foundDocs \in Orders(TargetFind(c, PendingIds(pending, c), LoadOptions))
    /\ docs' = BackFill(docs, pending[c], foundDocs, 1)
    /\ loads' = loads \ {c}
    /\ missing' = missing \cup {<<c, id>> : id \in PendingIds(pending, c) \ targets[c]}
    /\ UNCHANGED <<otherVars, classVars, docVars, saveVars, dbVars, targets, ownerRecs, result, popPc,
                   popOpts, pending, finds, findOpts>>

\* all finds have returned: populate resolves with the documents
PopulateDone ==
    /\ popPc = "loading"
    /\ loads = {}
    /\ popPc' = "done"
    /\ UNCHANGED <<otherVars, classVars, docVars, saveVars, dbVars, targets, ownerRecs, docs, result,
                   popOpts, pending, loads, finds, findOpts, missing>>

Deleted == UNION {{<<c, id>> : id \in TargetIds \ targets[c]} : c \in Classes}

\* Document.deleteOne of a referenced class removes a record
deleteTarget(c, id) ==
    /\ id \in targets[c]
    /\ popPc # "done"
    /\ Cardinality(Deleted) < MaxDeletes
    /\ targets' = [targets EXCEPT ![c] = @ \ {id}]
    /\ UNCHANGED <<otherVars, classVars, docVars, saveVars, dbVars, ownerRecs, docs, result, popPc,
                   popOpts, pending, loads, finds, findOpts, missing>>

\* no User record is stored and no find is in flight
InitNoRefs ==
    /\ targets = [c \in Classes |-> {}]
    /\ ownerRecs = [o \in Owners |-> BlankUser]
    /\ docs = [o \in Owners |-> BlankUser]
    /\ result = {}
    /\ popPc = "idle"
    /\ popOpts = [one |-> 0, has |-> FALSE, populate |-> PFalse]
    /\ pending = NoMap
    /\ loads = {}
    /\ finds = [c \in Classes |-> 0]
    /\ findOpts = {}
    /\ missing = {}

(***************************************************************************)
(* Class schemas.  The class Foo declares                                  *)
(*   static SCHEMA = {names: {type: [String], default: ['Tom']},          *)
(*                    nums: [Number]}                                      *)
(* Objects that can be shared are kept by address: an options object of    *)
(* the SCHEMA source, and every array.                                     *)
(***************************************************************************)
FooKeys == {"names", "nums", "added"}
ObjAddrs == 1..(1 + MaxEdits)
ArrAddrs == 1..(1 + 2 * MaxInsts + MaxEdits)

\* a key of a schema object: missing, a bare type, or an options object
NoField == [form |-> "none", obj |-> 0, type |-> ""]
Bare(t) == [form |-> "type", obj |-> 0, type |-> t]
Opts(o) == [form |-> "options", obj |-> o, type |-> "[String]"]

isArrayType(t) == t \in {"[String]", "[Number]"}

NoOp == [op |-> "none", inst |-> 0, key |-> "", no |-> 0]

\* the class has not been used: nothing is compiled, no instance exists
InitSchema ==
    /\ SCHEMA = [k \in FooKeys |->
                    CASE k = "names" -> Opts(1) [] k = "nums" -> Bare("[Number]")
                      [] OTHER -> NoField]
    /\ optDefault = [o \in ObjAddrs |-> 1]
    /\ arrs = [a \in ArrAddrs |-> IF a = 1 THEN <<"Tom">> ELSE <<>>]
    /\ schema = [k \in FooKeys |-> NoField]
    /\ compiled = FALSE
    /\ compiledAs = [k \in FooKeys |-> [form |-> "none", type |-> "", def |-> <<>>]]
    /\ insts = <<>>
    /\ lastOp = NoOp

\* the addresses in use
UsedObjs == {SCHEMA[k].obj : k \in FooKeys} \cup {schema[k].obj : k \in FooKeys}
UsedArrs ==
    {optDefault[o] : o \in UsedObjs \ {0}}
        \cup UNION {{insts[i][k] : k \in FooKeys} : i \in 1..Len(insts)}
NewObj == CHOOSE o \in ObjAddrs : o \notin UsedObjs
NewArrs(n) == CHOOSE A \in SUBSET (ArrAddrs \ UsedArrs) : Cardinality(A) = n
Ops == lastOp.no + 1

\* generateSchemaForDocument: every key of the SCHEMA source becomes a key
\* of the compiled schema; an options object (a value with a type property)
\* is taken over as it is, a bare type is wrapped into a new entry
generateSchemaForDocument == [k \in FooKeys |-> SCHEMA[k]]

\* the default a compiled entry gives: its default property, or an empty
\* array for an array type without one
DefaultOf(entry) ==
    IF entry.form = "options" THEN arrs[optDefault[entry.obj]] ELSE <<>>

\* what a schema says, key by key, whatever object says it
Said(sch) ==
    [k \in FooKeys |-> [form |-> sch[k].form, type |-> sch[k].type,
                        def |-> DefaultOf(sch[k])]]

\* the array an instance is given as the default of an array field: a new
\* array with the elements of the default
\* (variant DefaultArray_Shared: the array of the default property itself)
DefaultArray_Shared(entry, fresh) ==
    IF entry.form = "options" THEN optDefault[entry.obj] ELSE fresh
DefaultArray(entry, fresh) == fresh

\* Foo.create(): the first call compiles the schema of the class, every
\* call builds an instance with the defaults of the compiled schema
CreateFoo ==
    /\ Len(insts) < MaxInsts
    /\ LET sch == IF compiled THEN schema ELSE generateSchemaForDocument
           fresh == NewArrs(2)
           a1 == CHOOSE a \in fresh : \A b \in fresh : a <= b
           a2 == CHOOSE a \in fresh : a # a1
           freshOf(k) == IF k = "names" THEN a1 ELSE a2
           inst == [k \in FooKeys |->
                       IF isArrayType(sch[k].type)
                       THEN DefaultArray(sch[k], freshOf(k)) ELSE 0]
       IN /\ schema' = sch
          /\ compiledAs' = IF compiled THEN compiledAs ELSE Said(sch)
          /\ arrs' = [a \in ArrAddrs |->
                         IF \E k \in FooKeys : isArrayType(sch[k].type) /\ a = freshOf(k)
                         THEN DefaultOf(sch[CHOOSE k \in FooKeys :
                                               isArrayType(sch[k].type) /\ a = freshOf(k)])
                         ELSE arrs[a]]
          /\ insts' = Append(insts, inst)
          /\ lastOp' = [op |-> "create", inst |-> Len(insts) + 1, key |-> "", no |-> Ops]
    /\ compiled' = TRUE
    /\ UNCHANGED <<SCHEMA, optDefault>>
    /\ UNCHANGED <<classVars, docVars, saveVars, dbVars, popVars, callVars, delVars, laterVars>>

Edits == lastOp.no - Len(insts)

\* the application pushes an element to an array field of an instance
PushTo(i, k) ==
    /\ Edits < MaxEdits
    /\ i \in 1..Len(insts)
    /\ insts[i][k] # 0
    /\ arrs' = [arrs EXCEPT ![insts[i][k]] = Append(@, "Bob")]
    /\ lastOp' = [op |-> "push", inst |-> i, key |-> k, no |-> Ops]
    /\ UNCHANGED <<SCHEMA, optDefault, schema, compiled, compiledAs, insts>>
    /\ UNCHANGED <<classVars, docVars, saveVars, dbVars, popVars, callVars, delVars, laterVars>>

\* the application adds a key to the SCHEMA source, removes one, replaces
\* the options object of one, or assigns the default property of the
\* options object of one
AddField ==
    /\ Edits < MaxEdits
    /\ SCHEMA["added"] = NoField
    /\ SCHEMA' = [SCHEMA EXCEPT !["added"] = Bare("String")]
    /\ lastOp' = [op |-> "add", inst |-> 0, key |-> "added", no |-> Ops]
    /\ UNCHANGED <<optDefault, arrs, schema, compiled, compiledAs, insts>>
    /\ UNCHANGED <<classVars, docVars, saveVars, dbVars, popVars, callVars, delVars, laterVars>>

RemoveField ==
    /\ Edits < MaxEdits
    /\ SCHEMA["nums"] # NoField
    /\ SCHEMA' = [SCHEMA EXCEPT !["nums"] = NoField]
    /\ lastOp' = [op |-> "remove", inst |-> 0, key |-> "nums", no |-> Ops]
    /\ UNCHANGED <<optDefault, arrs, schema, compiled, compiledAs, insts>>
    /\ UNCHANGED <<classVars, docVars, saveVars, dbVars, popVars, callVars, delVars, laterVars>>

ReplaceField ==
    /\ Edits < MaxEdits
    /\ LET o == NewObj
           a == CHOOSE x \in NewArrs(1) : TRUE
       IN /\ SCHEMA' = [SCHEMA EXCEPT !["names"] = Opts(o)]
          /\ optDefault' = [optDefault EXCEPT ![o] = a]
          /\ arrs' = [arrs EXCEPT ![a] = <<"Bob">>]
    /\ lastOp' = [op |-> "replace", inst |-> 0, key |-> "names", no |-> Ops]
    /\ UNCHANGED <<schema, compiled, compiledAs, insts>>
    /\ UNCHANGED <<classVars, docVars, saveVars, dbVars, popVars, callVars, delVars, laterVars>>

SetDefault ==
    /\ Edits < MaxEdits
    /\ SCHEMA["names"].form = "options"
    /\ LET a == CHOOSE x \in NewArrs(1) : TRUE
       IN /\ optDefault' = [optDefault EXCEPT ![SCHEMA["names"].obj] = a]
          /\ arrs' = [arrs EXCEPT ![a] = <<"Bob">>]
    /\ lastOp' = [op |-> "setDefault", inst |-> 0, key |-> "names", no |-> Ops]
    /\ UNCHANGED <<SCHEMA, schema, compiled, compiledAs, insts>>
    /\ UNCHANGED <<classVars, docVars, saveVars, dbVars, popVars, callVars, delVars, laterVars>>

\* no single operation has been applied
NotCalled == <<"", "none">>
InitNoCall ==
    /\ subject = <<>>
    /\ outcome = NotCalled

InitOther == InitSchema /\ InitNoCall /\ InitNoDelete /\ InitLater

(***************************************************************************)
(* The class Card, for validation:                                         *)
(*   kind:  {type: String, required: true}                                 *)
(*   grade: {type: String, match: /^[abc]$/, choices: ['a', 'b', 'Z'],     *)
(*           validate: v => v !== 'b'}                                     *)
(*   level: {type: Number, choices: [1, 2, 300, -1], min: 0, max: 100,     *)
(*           validate: v => v !== 2}                                       *)
(***************************************************************************)
CardSchema ==
    << Entry("_id", "String"),
       [Entry("kind", "String") EXCEPT !.required = TRUE],
       [Entry("grade", "String") EXCEPT
           !.hasMatch = TRUE, !.match = {Str("a"), Str("b"), Str("c")},
           !.hasChoices = TRUE, !.choices = {Str("a"), Str("b"), Str("Z")},
           !.hasValidate = TRUE, !.accepts = {Str("a"), Str("c"), Str("Z")}],
       [Entry("level", "Number") EXCEPT
           !.hasChoices = TRUE, !.choices = {Num(1), Num(2), Num(300), Num(-1)},
           !.hasMin = TRUE, !.min = MinItem, !.hasMax = TRUE, !.max = MaxItem,
           !.hasValidate = TRUE, !.accepts = {Num(1), Num(300), Num(-1), Num(5)}] >>

Cards ==
    [_id : {Null},
     kind : {Str("k"), Str(""), Null, Undef, Num(1)},
     grade : {Str("a"), Str("b"), Str("c"), Str("Z"), Num(1)},
     level : {Num(1), Num(2), Num(300), Num(-1), Num(5), Str("x"), Undef}]

\* card.validate() is called
ValidateCard ==
    /\ outcome = NotCalled
    /\ outcome' = ValidateIn(CardSchema, subject, 1)
    /\ UNCHANGED <<subject, schemaVars, delVars, laterVars>>
    /\ UNCHANGED <<classVars, docVars, saveVars, dbVars, popVars>>


(***************************************************************************)
(* The save lifecycle of one document with hooks that may reject           *)
(***************************************************************************)
MaxRejecting == 2

SaveData ==
    {[NoData EXCEPT !["name"] = Str("A"), !["item"] = i, !["birthday"] = b,
                          !["contents"] = c] :
        i \in {Num(99), Num(101)}, b \in {Undef, Num(5)}, c \in {Absent, Emb}}

InitSave ==
    /\ InitCommon
    /\ InitOther
    /\ InitNoRefs
    /\ rejecting \in {R \in SUBSET Hooks : Cardinality(R) <= MaxRejecting}

NextSave ==
    \/ \E data \in SaveData : Create(1, data)
    \/ \E v \in {Num(99), Num(101), Str("x")} : SetField(1, "item", v)
    \/ SaveCall(1)
    \/ SaveStep(1)

SpecSave == InitSave /\ [][NextSave]_vars

Last(seq) == seq[Len(seq)]

C3_Rejected ==
    \A d \in Slots :
        /\ (pc[d] = "rejected" /\ reason[d][1] = "ValidationError") =>
              /\ ~wrote[d]
              /\ heap[d]["_id"] = idAtCall[d]
              /\ Last(log[d]) = <<"parent", "validate">>
              /\ \A i \in 1..Len(log[d]) :
                    log[d][i][2] \notin {"postValidate", "preSave", "persist", "postSave"}
        /\ (failedBefore[d] /\ pc[d] = "resolved") => heap[d]["_id"] # Null

C3_ValidateStep ==
    \A d \in Slots :
        (pc[d] = "preValidate" /\ pc'[d] # "preValidate" /\ pend[d] = {}) =>
            /\ (heap[d]["item"].t = "number" /\ heap[d]["item"].n > MaxItem) =>
                  (pc'[d] = "rejected" /\ reason'[d] = ValidationError("item", "max"))
            /\ (heap[d]["item"].t = "number" /\ heap[d]["item"].n \in MinItem..MaxItem) =>
                  pc'[d] = "postValidate"
            /\ pc'[d] = "rejected" =>
                  /\ reason'[d][1] = "ValidationError"
                  /\ heap' = heap
                  /\ store' = store
                  /\ nextId' = nextId

C3_ValidationFailure == []C3_Rejected /\ [][C3_ValidateStep]_vars

C3_Witness ==
    \E d \in Slots :
        /\ failedBefore[d]
        /\ pc[d] = "resolved"
        /\ wrote[d]
        /\ heap[d]["_id"] # Null

(***************************************************************************)
(* Two documents saved one after the other or concurrently, custom ids,    *)
(* class-level deletes                                                     *)
(***************************************************************************)
Emails == {Str("billy@example.com"), Str("bob@example.com")}

StoreData ==
    {[NoData EXCEPT !["name"] = Str("A"), !["item"] = Num(99), !["email"] = e] :
        e \in Emails}

InitStore ==
    /\ InitCommon
    /\ InitOther
    /\ InitNoRefs
    /\ rejecting = {}

NextStore ==
    \/ \E d \in Slots, data \in StoreData : Create(d, data)
    \/ \E d \in Slots : PresetId(d)
    \/ \E d \in Slots : SaveCall(d)
    \/ \E d \in Slots : SaveStep(d)
    \/ \E r \in store : deleteOne(r)

SpecStore == InitStore /\ [][NextStore]_vars

InFlightBeforeAdopt == {"preValidate", "postValidate", "preSave", "dbSave"}
AfterAdopt == {"postSave", "awaitPostSave", "resolved"}

\* C4: _id is null when an instance is created and changes only from null,
\* either to the id the storage client returned for the record this save
\* wrote or to the id the application presets; a save of a document whose
\* _id is not null leaves exactly one record with that id and every other
\* record as it was, adding none when the record exists; a save that has
\* passed the write has a non-null _id, the returned id if it was null at
\* the call and the unchanged id otherwise
C4_IdState ==
    /\ \A d \in Slots :
          /\ d \notin live => heap[d]["_id"] = Null
          /\ pc[d] \in InFlightBeforeAdopt => heap[d]["_id"] = idAtCall[d]
          /\ pc[d] = "dbSave" => saveId[d] = heap[d]["_id"]
          /\ pc[d] \in AfterAdopt =>
                /\ heap[d]["_id"] # Null
                /\ idAtCall[d] = Null =>
                      (heap[d]["_id"] = dbResult[d] /\ isNativeId(dbResult[d]))
                /\ idAtCall[d] # Null => heap[d]["_id"] = idAtCall[d]
    /\ \A r1, r2 \in store : r1["_id"] = r2["_id"] => r1 = r2

C4_IdStep ==
    \A d \in Slots :
        /\ (d \notin live /\ d \in live') => heap'[d]["_id"] = Null
        /\ heap'[d]["_id"] # heap[d]["_id"] =>
              /\ heap[d]["_id"] = Null
              /\ \/ pc[d] = "adopt" /\ wrote[d] /\ heap'[d]["_id"] = dbResult[d]
                 \/ Settled(d) /\ heap'[d]["_id"] = CustomId
        /\ (pc[d] = "dbSave" /\ pc'[d] = "adopt" /\ saveId[d] # Null) =>
              /\ Cardinality({r \in store' : r["_id"] = saveId[d]}) = 1
              /\ {r \in store' : r["_id"] # saveId[d]} = {r \in store : r["_id"] # saveId[d]}
              /\ RecordsWithId(saveId[d]) # {} => Cardinality(store') = Cardinality(store)
              /\ nextId' = nextId

C4_IdLifecycle == []C4_IdState /\ [][C4_IdStep]_vars

C4_Witness ==
    \E d \in Slots :
        /\ pc[d] = "resolved"
        /\ idAtCall[d] # Null
        /\ idAtCall[d] # CustomId
        /\ heap[d]["_id"] = idAtCall[d]
        /\ Cardinality(RecordsWithId(heap[d]["_id"])) = 1
        /\ Cardinality(store) = 1

\* C5: no two records carry the same value in the unique field; a save the
\* storage client refuses rejects with the uniqueness error, a record with
\* that value and another id being stored, and leaves the collection and
\* every instance as they were, so a null _id stays null
C5_OneRecordPerValue ==
    \A r1, r2 \in store : r1["email"] = r2["email"] => r1 = r2

C5_LosingSave ==
    \A d \in Slots :
        (pc[d] = "dbSave" /\ pc'[d] = "rejected") =>
            /\ reason'[d] = UniqueViolated
            /\ \E r \in store : r["email"] = payload[d]["email"] /\ r["_id"] # saveId[d]
            /\ store' = store
            /\ heap' = heap
            /\ idAtCall[d] = Null => heap'[d]["_id"] = Null

DataData ==
    {[NoData EXCEPT !["name"] = Str("A"), !["extra"] = x] :
        x \in {Absent, Num(666)}}

InitData ==
    /\ InitCommon
    /\ InitOther
    /\ InitNoRefs
    /\ rejecting = {}

NextData ==
    \/ \E b \in Behaviors \cup {"default"} : setUnknownDataKeyBehavior(b)
    \/ \E d \in Slots, data \in DataData : Create(d, data)
    \/ SaveCall(1)
    \/ SaveStep(1)
    \/ \E d \in Slots, r \in store : findOne(d, r)

SpecData == InitData /\ [][NextData]_vars

\* C9: a create call whose data carries a key outside the schema throws and
\* yields no instance when the behaviour in force is throw, yields an
\* instance without the key under ignore and logAndIgnore, and an instance
\* carrying the key's value under accept and logAndAccept; after the
\* behaviour has been set to default the behaviour in force is throw
C9_DefaultIsThrow ==
    /\ behavior \in Behaviors
    /\ lastSet = "default" => behavior = "throw"
    /\ lastSet # "default" => behavior = lastSet

C9_CreateStep ==
    (lastCreate' # lastCreate /\ lastCreate'.data["extra"] # Absent) =>
        LET c == lastCreate'
        IN /\ c.behavior = behavior
           /\ c.behavior = "throw" =>
                 (c.outcome = "threw" /\ live' = live /\ heap' = heap)
           /\ c.behavior \in {"ignore", "logAndIgnore"} =>
                 /\ c.outcome = "instance"
                 /\ c.slot \in live' \ live
                 /\ heap'[c.slot]["extra"] = Absent
           /\ c.behavior \in {"accept", "logAndAccept"} =>
                 /\ c.outcome = "instance"
                 /\ c.slot \in live' \ live
                 /\ heap'[c.slot]["extra"] = c.data["extra"]

RefValues == {RNull} \cup {RId(i) : i \in TargetIds}

IdSeqs == UNION {[1..n -> {RId(i) : i \in TargetIds}] : n \in 0..MaxRefs}

RefCount(rec) ==
    Len(rec.eyes) + (IF rec.pet = RNull THEN 0 ELSE 1) + (IF rec.spare = RNull THEN 0 ELSE 1)

UserRecords ==
    {rec \in [pet : RefValues, spare : RefValues, eyes : IdSeqs] : RefCount(rec) <= MaxRefs}

RECURSIVE TotalRefs(_, _)
TotalRefs(recs, o) == IF o > MaxOwners THEN 0 ELSE RefCount(recs[o]) + TotalRefs(recs, o + 1)

PopulateOptions ==
    {NoPopulateOption, Options(PTrue), Options(PFalse)}
        \cup {Options(PList(F)) : F \in {{}} \cup {{k} : k \in RefKeys}}

InitRefs ==
    /\ InitCommon
    /\ InitOther
    /\ rejecting = {}
    /\ targets = [c \in Classes |-> TargetIds]
    /\ ownerRecs \in {recs \in [Owners -> UserRecords] : TotalRefs(recs, 1) <= MaxRefs}
    /\ docs = [o \in Owners |-> BlankUser]
    /\ result = {}
    /\ popPc = "idle"
    /\ popOpts = [one |-> 0, has |-> FALSE, populate |-> PFalse]
    /\ pending = NoMap
    /\ loads = {}
    /\ finds = [c \in Classes |-> 0]
    /\ findOpts = {}
    /\ missing = {}

NextRefs ==
    \/ \E one \in {0, 1}, opts \in PopulateOptions : FindCall(one, opts)
    \/ FindData
    \/ \E c \in Classes, n \in 0..MaxTargets :
          \E foundDocs \in [1..n -> {RDoc(i, b) : i \in TargetIds, b \in {"id", "doc"}}] :
              LoadDone(c, foundDocs)
    \/ PopulateDone
    \/ \E c \in Classes, id \in TargetIds : deleteTarget(c, id)

SpecRefs == InitRefs /\ [][NextRefs]_vars

\* whether the populate of the current call has run
Populated == popPc \in {"loading", "done"} /\ getPopulateOption(popOpts) # PFalse

\* the field holds the instances of exactly the ids the record stores
HoldsTargets(o, k) ==
    IF k \in Range(Ref1Keys)
    THEN IF ownerRecs[o][k] = RNull THEN docs[o][k] = RNull
         ELSE docs[o][k].k = "doc" /\ docs[o][k].id = ownerRecs[o][k].id
    ELSE /\ Len(docs[o][k]) = Len(ownerRecs[o][k])
         /\ \A i \in 1..Len(docs[o][k]) : docs[o][k][i].k = "doc"
         /\ \A id \in TargetIds :
               Cardinality({i \in 1..Len(docs[o][k]) : docs[o][k][i].id = id})
                   = Count(ownerRecs[o][k], RId(id))

\* the field holds the stored id(s)
HoldsIds(o, k) == docs[o][k] = ownerRecs[o][k]

\* C6: when populate has resolved and every pending target was in storage,
\* every selected reference field of every document holds the instances of
\* exactly the ids it referenced, an array field as many elements as it had
\* ids, whether an id was referenced by several documents, by several
\* fields or several times within one array
C6_AllSlotsFilled ==
    (popPc = "done" /\ Populated /\ missing = {}) =>
        \A o \in result : \A k \in RefKeys :
            Selected(k, getPopulateOption(popOpts)) => HoldsTargets(o, k)

C6_Witness ==
    /\ popPc = "done"
    /\ Populated
    /\ missing = {}
    /\ result = Owners
    /\ \E o1, o2 \in Owners : \E id \in TargetIds :
          /\ o1 # o2
          /\ ownerRecs[o1].eyes = <<RId(id), RId(id)>>
          /\ Len(docs[o1].eyes) = 2
          /\ \A i \in 1..2 : docs[o1].eyes[i].k = "doc" /\ docs[o1].eyes[i].id = id
          /\ docs[o2].eyes = <<>>

\* the class is referenced by a selected field of a fetched document
HasPendingId(c) ==
    \E o \in result : \E k \in RefKeys :
        /\ KeyClass(k) = c
        /\ Selected(k, getPopulateOption(popOpts))
        /\ IF k \in Range(Ref1Keys) THEN ownerRecs[o][k] # RNull
                                     ELSE Len(ownerRecs[o][k]) > 0

\* C7: one populate call issues exactly one find for every class that has a
\* pending id and none for any other class, each with population disabled,
\* and the reference field of every instance it fills in is a raw id
C7_OneFindPerClass ==
    Populated =>
        /\ \A c \in Classes : finds[c] = IF HasPendingId(c) THEN 1 ELSE 0
        /\ \A opts \in findOpts : getPopulateOption(opts) = PFalse
        /\ \A o \in result :
              /\ \A k \in Range(Ref1Keys) : docs[o][k].k = "doc" => docs[o][k].back = "id"
              /\ \A k \in Range(RefNKeys) : \A i \in 1..Len(docs[o][k]) :
                    docs[o][k][i].k = "doc" => docs[o][k][i].back = "id"

C7_Witness ==
    /\ popPc = "done"
    /\ Populated
    /\ finds = [c \in Classes |-> IF c = "Eye" THEN 1 ELSE 0]
    /\ \E o1, o2 \in Owners :
          /\ o1 # o2
          /\ docs[o1].spare.k = "doc"
          /\ docs[o1].spare.back = "id"
          /\ Len(docs[o2].eyes) = 1
          /\ docs[o2].eyes[1].k = "doc"
          /\ docs[o2].eyes[1].back = "id"

\* C8: find and findOne without a populate option or with populate:true
\* resolve every reference field; with populate:false every reference field
\* keeps its stored id(s); with a non-empty list the listed fields are
\* resolved and every other reference field keeps its stored id(s)
\* (resolved, when the targets were in storage)
C8_PopulateOption ==
    popPc = "done" =>
        \A o \in result : \A k \in RefKeys :
            LET resolved == missing = {} => HoldsTargets(o, k)
            IN /\ (~popOpts.has \/ popOpts.populate = PTrue) => resolved
               /\ (popOpts.has /\ popOpts.populate = PFalse) => HoldsIds(o, k)
               /\ (popOpts.has /\ popOpts.populate.val = "list"
                                  /\ popOpts.populate.fields # {}) =>
                     IF k \in popOpts.populate.fields THEN resolved ELSE HoldsIds(o, k)

C8_Witness ==
    /\ popPc = "done"
    /\ popOpts.has
    /\ popOpts.populate = PList({"pet"})
    /\ \E o \in result :
          /\ docs[o].pet.k = "doc"
          /\ ownerRecs[o].spare # RNull
          /\ docs[o].spare = ownerRecs[o].spare

(***************************************************************************)
(* The class Foo: instances are created and changed while the application  *)
(* changes the SCHEMA source                                               *)
(***************************************************************************)
InitFoo ==
    /\ InitCommon
    /\ InitNoRefs
    /\ InitOther
    /\ rejecting = {}

NextFoo ==
    \/ CreateFoo
    \/ \E i \in 1..MaxInsts, k \in FooKeys : PushTo(i, k)
    \/ AddField
    \/ RemoveField
    \/ ReplaceField
    \/ SetDefault

SpecFoo == InitFoo /\ [][NextFoo]_vars

\* C11: the default-valued array fields of two instances are distinct
\* arrays, none of them is the array of a default property, and a push to
\* the field of one instance changes neither the field of another instance
\* nor the default the compiled schema gives
C11_Distinct ==
    \A i \in 1..Len(insts) : \A k \in FooKeys :
        insts[i][k] # 0 =>
            /\ \A j \in 1..Len(insts) : \A l \in FooKeys :
                  (j # i \/ l # k) => insts[j][l] # insts[i][k]
            /\ \A o \in UsedObjs \ {0} : optDefault[o] # insts[i][k]

C11_PushStep ==
    (lastOp' # lastOp /\ lastOp'.op = "push") =>
        /\ \A j \in 1..Len(insts) : \A k \in FooKeys :
              (insts[j][k] # 0 /\ <<j, k>> # <<lastOp'.inst, lastOp'.key>>) =>
                  arrs'[insts[j][k]] = arrs[insts[j][k]]
        /\ \A k \in FooKeys : DefaultOf(schema[k])' = DefaultOf(schema[k])

C12_SourceFrozen ==
    compiled =>
        /\ Said(schema) = compiledAs
        /\ lastOp.op = "create" =>
              \A k \in FooKeys :
                  LET f == insts[lastOp.inst][k]
                  IN /\ (f # 0) = isArrayType(compiledAs[k].type)
                     /\ f # 0 => arrs[f] = compiledAs[k].def

(***************************************************************************)
(* Validation of one Card                                                  *)
(***************************************************************************)
InitValidate ==
    /\ InitCommon
    /\ InitNoRefs
    /\ InitSchema
    /\ InitNoDelete
    /\ InitLater
    /\ rejecting = {}
    /\ subject \in Cards
    /\ outcome = NotCalled

NextValidate == ValidateCard

SpecValidate == InitValidate /\ [][NextValidate]_vars

Checks == <<"type", "required", "match", "choices", "min", "max", "validate">>

\* whether a value fails one check of its schema entry, taken alone
Fails(check, entry, value) ==
    CASE check = "type" -> ~isValidType(value, entry.type)
      [] check = "required" -> entry.required /\ (value.t = "null" \/ isEmptyValue(value))
      [] check = "match" -> entry.hasMatch /\ typeof(value) = "string" /\ value \notin entry.match
      [] check = "choices" -> entry.hasChoices /\ value \notin entry.choices
      [] check = "min" -> entry.hasMin /\ LessThan(value, entry.min)
      [] check = "max" -> entry.hasMax /\ GreaterThan(value, entry.max)
      [] check = "validate" -> entry.hasValidate /\ value \notin entry.accepts

CheckNo(check) ==
    IF check = "TypeError" THEN 2 ELSE CHOOSE i \in 1..Len(Checks) : Checks[i] = check

KeyNo(key) == CHOOSE i \in 1..Len(CardSchema) : CardSchema[i].key = key

\* C13: validate reports the first failing check: no check of an earlier
\* declared field fails, no earlier check of the reported field fails, and
\* it passes only when no check fails; a wrong type of the required field
\* kind is reported whatever the later declared fields violate
C13_FirstFailure ==
    outcome # NotCalled =>
        LET key == outcome[1]
            check == outcome[2]
        IN /\ check = "ok" =>
                 \A i \in 1..Len(CardSchema) : \A c \in 1..Len(Checks) :
                     ~Fails(Checks[c], CardSchema[i], subject[CardSchema[i].key])
           /\ check # "ok" =>
                 /\ Fails(Checks[CheckNo(check)], CardSchema[KeyNo(key)], subject[key])
                 /\ \A i \in 1..(KeyNo(key) - 1) : \A c \in 1..Len(Checks) :
                       ~Fails(Checks[c], CardSchema[i], subject[CardSchema[i].key])
                 /\ \A c \in 1..(CheckNo(check) - 1) :
                       ~Fails(Checks[c], CardSchema[KeyNo(key)], subject[key])
           /\ subject["kind"] = Num(1) => outcome = <<"kind", "type">>

C13_Witness ==
    /\ subject["kind"] = Num(1)
    /\ subject["grade"] = Str("c")
    /\ outcome = <<"kind", "type">>

(***************************************************************************)
(* Deleting: stored and unsaved Person instances are deleted through       *)
(* delete() while the class-level removals run                             *)
(***************************************************************************)
InstanceKinds == {"saved", "savedWithChild", "unsaved"}

\* the instance in slot d: saved under the id NativeId(d), or never saved
PersonOf(d, kind) ==
    [_instantiate EXCEPT !["_id"] = IF kind = "unsaved" THEN Null ELSE NativeId(d),
                         !["name"] = Str("A"),
                         !["email"] = Str(ToString(d)),
                         !["contents"] = IF kind = "savedWithChild" THEN Emb ELSE Undef]

InitDelete ==
    /\ behavior = "throw"
    /\ lastSet = "default"
    /\ rejecting \in {{}} \cup {{h} : h \in DeleteHooks}
    /\ indexes = _createIndexesOnce
    /\ indexesCreated = TRUE
    /\ live = Slots
    /\ \E kinds \in [Slots -> InstanceKinds] :
          /\ heap = [d \in Slots |-> PersonOf(d, kinds[d])]
          /\ store = {NewRecord(NativeId(d), docToSave(PersonOf(d, kinds[d]))) :
                         d \in {e \in Slots : kinds[e] # "unsaved"}}
    /\ lastCreate = [outcome |-> "none", slot |-> 0, data |-> NoData, behavior |-> "throw"]
    /\ handled = {}
    /\ InitNoSave
    /\ nextId = 1
    /\ InitNoRefs
    /\ InitSchema
    /\ InitNoCall
    /\ InitNoDelete
    /\ InitLater

NextDelete ==
    \/ \E d \in Slots : DeleteCall(d)
    \/ \E d \in Slots : DeleteStep(d)
    \/ \E r \in store : deleteOne(r)
    \/ \E matched \in SUBSET store : deleteMany(matched)
    \/ \E r \in store : findOneAndDelete(r)
    \/ clearCollection

SpecDelete == InitDelete /\ [][NextDelete]_vars

\* C14: a preDelete or postDelete hook is invoked only by a step of the
\* delete() of that very instance; every other step (deleteOne, deleteMany,
\* findOneAndDelete, clearCollection) only removes records and invokes no
\* hook of any document.
C14_Step ==
    /\ delLog' # delLog =>
          \E d \in Slots :
             /\ delPc'[d] # delPc[d]
             /\ delPc'[d] \in {"preDelete", "postDelete"}
             /\ \A e \in Slots \ {d} : delLog'[e] = delLog[e]
    /\ delPc' = delPc => /\ delLog' = delLog
                         /\ store' \subseteq store
C14_HooksOnlyByDelete == [][C14_Step]_vars

\* one instance was deleted through delete() and ran its hooks, the record
\* of another live instance was removed by a class-level operation and no
\* hook of that instance ran
C14_Witness ==
    \E d1, d2 \in Slots :
        /\ d1 # d2
        /\ delPc[d1] = "resolved"
        /\ delRet[d1] = 1
        /\ delLog[d1] = << <<"child", "preDelete">>, <<"parent", "preDelete">>,
                           <<"child", "postDelete">>, <<"parent", "postDelete">> >>
        /\ delPc[d2] = "idle"
        /\ isEmbeddedDocument(heap[d2]["contents"])
        /\ isNativeId(heap[d2]["_id"])
        /\ RecordsWithId(heap[d2]["_id"]) = {}
        /\ delLog[d2] = <<>>

(***************************************************************************)
(* Index bootstrap of the class Account under every declaration of its     *)
(* fields                                                                  *)
(***************************************************************************)
InitIndex ==
    /\ InitCommon
    /\ InitNoRefs
    /\ rejecting = {}
    /\ InitSchema
    /\ InitNoCall
    /\ InitNoDelete
    /\ InitNoOperation
    /\ InitNoClient
    /\ InitLast
    /\ decl \in [{"name", "email", "nick"} -> Declarations]
    /\ built = "no"
    /\ requests = <<>>
    /\ uses = 0

NextIndex == UseClass

SpecIndex == InitIndex /\ [][NextIndex]_vars

\* C15: once the class has been used, its schema has compiled without error
\* whichever of the flags unique and indexed its fields declare, the storage
\* client has been asked for exactly one index per flagged field (unique for
\* unique, non-unique for indexed), and further uses ask for nothing more.
C15_IndexBootstrap ==
    uses > 0 =>
        /\ built = "ok"
        /\ \A k \in DOMAIN decl :
              /\ decl[k] = "unique" => Cardinality({i \in 1..Len(requests) : requests[i] = <<k, TRUE>>}) = 1
              /\ decl[k] = "indexed" => Cardinality({i \in 1..Len(requests) : requests[i] = <<k, FALSE>>}) = 1
        /\ Len(requests) = Cardinality({k \in DOMAIN decl : decl[k] \in {"unique", "indexed"}})

(***************************************************************************)
(* The payload save() builds for every valid Order                         *)
(***************************************************************************)
InitPayload ==
    /\ InitCommon
    /\ InitNoRefs
    /\ rejecting = {}
    /\ InitSchema
    /\ InitNoDelete
    /\ InitLater
    /\ subject \in ValidOrders
    /\ outcome = NotCalled

NextPayload == BuildPayload

SpecPayload == InitPayload /\ [][NextPayload]_vars

\* what a reference value is stored as: the id of the instance, or the id
StoredRef(v) == IF isDocument(v) THEN NativeId(v.n) ELSE v

\* C16: the payload holds under a reference field the ids of the referenced
\* documents, under an embedded field plain data, and under every other field
\* the very value of the instance, arrays element for element; no value of
\* the payload is a Document or an EmbeddedDocument.
C16_PlainPayload ==
    outcome[1] = "payload" =>
        LET out == outcome[2]
        IN /\ out["pet"] = StoredRef(subject["pet"])
           /\ out["pets"] = [i \in 1..Len(subject["pets"]) |-> StoredRef(subject["pets"][i])]
           /\ out["contents"] = IF subject["contents"] = Emb THEN Plain ELSE subject["contents"]
           /\ out["cups"] = [i \in 1..Len(subject["cups"]) |-> Plain]
           /\ out["name"] = subject["name"]
           /\ out["tags"] = subject["tags"]
           /\ \A k \in OrderKeys :
                 IF k \in OrderArrays
                 THEN \A i \in 1..Len(out[k]) : ~isDocument(out[k][i]) /\ ~isEmbeddedDocument(out[k][i])
                 ELSE ~isDocument(out[k]) /\ ~isEmbeddedDocument(out[k])

(***************************************************************************)
(* One operation in which any one step may fail                            *)
(***************************************************************************)
InitErrors ==
    /\ InitCommon
    /\ InitNoRefs
    /\ rejecting = {}
    /\ InitOther

NextErrors ==
    \/ \E o \in Operations, f \in 0..6, found \in BOOLEAN, populate \in BOOLEAN :
          CallOperation([op |-> o, failing |-> f, found |-> found, populate |-> populate])
    \/ StepOperation

SpecErrors == InitErrors /\ [][NextErrors]_vars

\* C17: once a step of an operation has raised an error, the promise the
\* operation returned is rejected with that error; in particular it is not
\* resolved and it is not left pending.
C17_ErrorsReject ==
    opErr # NoError => opEnd = <<"rejected", opErr[2]>>

(***************************************************************************)
(* Connecting, constructing and setting clients, and persistence           *)
(* operations before and after                                             *)
(***************************************************************************)
InitClient ==
    /\ InitCommon
    /\ InitNoRefs
    /\ rejecting = {}
    /\ InitOther

NextClient ==
    \/ Construct
    \/ \E given \in BOOLEAN : setClientInstance(given)
    \/ \E urlOk \in BOOLEAN, class \in DatastoreClasses : connect(urlOk, class)
    \/ \E op \in PersistenceOps : Persist(op)

SpecClient == InitClient /\ [][NextClient]_vars

\* C18: the client is set at most once and never replaced or unset: every
\* attempt to construct, connect or set a client while one is set throws
\* and leaves it in place; a persistence operation while no client is set
\* throws the 'connect first' error and does not reach the datastore.
C18_Inv ==
    /\ (dbClient = 0) = (clients = 0)
    /\ clients <= 1
    /\ touched > 0 => dbClient # 0
C18_Step ==
    /\ dbClient # 0 => dbClient' = dbClient
    /\ (dbClient # 0 /\ lastTry'.call \in {"construct", "connect", "setClientInstance"})
          => lastTry'.result # "ok"
    /\ (dbClient = 0 /\ lastTry'.call \in PersistenceOps)
          => lastTry'.result = "connectFirst" /\ touched' = touched
C18_SetOnce == []C18_Inv /\ [][C18_Step]_vars

\* a client is set and a later attempt to construct another one was refused
C18_Witness ==
    /\ dbClient = 1
    /\ tries = 3
    /\ touched = 0
    /\ lastTry = [call |-> "construct", result |-> "alreadySet"]

(***************************************************************************)
(* Round trip: a saved Person is fetched again                             *)
(***************************************************************************)
\* the Persons save() accepts, as they are after save() resolved
SavedPersons ==
    {doc \in [InstanceKeys ->
                 {Absent, Undef, Null, NativeId(1), Str("A"), Str("B"), Num(1), DateV(1), Emb}] :
        /\ doc["_id"] = NativeId(1)
        /\ doc["extra"] = Absent
        /\ doc["name"] \in {Str("A"), Str("B")}
        /\ doc["item"] \in {Undef, Null, Num(1)}
        /\ doc["email"] \in {Undef, Str("A")}
        /\ doc["birthday"] \in {Undef, Null, DateV(1)}
        /\ doc["contents"] \in {Undef, Null, Emb}
        /\ validate(doc)[2] = "ok"
        /\ canonicalize(doc) = doc}

InitRoundTrip ==
    /\ InitCommon
    /\ InitNoRefs
    /\ rejecting = {}
    /\ InitSchema
    /\ InitNoDelete
    /\ InitLater
    /\ subject \in SavedPersons
    /\ outcome = NotCalled

\* the record save() stored for the subject is fetched with findOne
FetchSaved ==
    /\ outcome[1] = ""
    /\ outcome' = <<"fetched", _fromData(NewRecord(subject["_id"], docToSave(subject)), behavior)>>
    /\ UNCHANGED <<subject, schemaVars, delVars, laterVars, classVars, docVars, saveVars, dbVars,
                   popVars>>

NextRoundTrip == FetchSaved

SpecRoundTrip == InitRoundTrip /\ [][NextRoundTrip]_vars

\* C19: the document fetched from the record of a saved document holds, under
\* every schema key, the value the saved document holds (an embedded
\* document: an instance with equal data).
C19_RoundTrip ==
    outcome[1] = "fetched" => \A k \in SchemaKeys : outcome[2][k] = subject[k]

(***************************************************************************)
(* toJSON of every Member                                                  *)
(***************************************************************************)
InitJSON ==
    /\ InitCommon
    /\ InitNoRefs
    /\ rejecting = {}
    /\ InitSchema
    /\ InitNoDelete
    /\ InitLater
    /\ subject \in Members
    /\ outcome = NotCalled

NextJSON == CallToJSON

SpecJSON == InitJSON /\ [][NextJSON]_vars

\* the object carries a value under the private key of its class
Leaks(v) == v.hasPriv /\ v.priv # ""

\* C20: the output of toJSON() holds no private field: not the private field
\* of the document, not that of an embedded document (single or in an
\* array), not that of a populated referenced document (single or in an
\* array).
C20_NoPrivate ==
    outcome[1] = "json" =>
        LET out == outcome[2]
        IN /\ \A k \in MemberPrivate : out[k] = Removed
           /\ \A k \in MemberKeys \ MemberPrivate :
                 IF k \in MemberArrays
                 THEN \A i \in 1..Len(out[k]) : ~Leaks(out[k][i])
                 ELSE ~Leaks(out[k])

(***************************************************************************)
(* Purge calls that may overlap, under every configured behaviour          *)
(***************************************************************************)
InitPurge ==
    /\ behavior \in Behaviors
    /\ lastSet = behavior
    /\ configured = behavior
    /\ purgePc = [p \in Purges |-> "idle"]
    /\ purgeOld = [p \in Purges |-> ""]
    /\ purgeLeft \in 0..MaxObsolete
    /\ indexes = {}
    /\ indexesCreated = FALSE
    /\ live = {}
    /\ heap = [d \in Slots |-> _instantiate]
    /\ lastCreate = [outcome |-> "none", slot |-> 0, data |-> NoData, behavior |-> "throw"]
    /\ InitNoSave
    /\ store = {}
    /\ nextId = 1
    /\ handled = {}
    /\ InitNoRefs
    /\ rejecting = {}
    /\ InitSchema
    /\ InitNoCall
    /\ InitNoDelete
    /\ InitNoIndex
    /\ InitNoOperation
    /\ InitNoClient
    /\ InitEnd

NextPurge ==
    \/ \E p \in Purges, namesOk \in BOOLEAN : PurgeCall(p, namesOk)
    \/ \E p \in Purges, fails \in BOOLEAN : PurgeStep(p, fails)

SpecPurge == InitPurge /\ [][NextPurge]_vars

\* C21: whenever no purge call is in flight, the global unknown data key
\* behaviour is the behaviour the application configured, however the purge
\* calls overlapped and however they ended.
C21_BehaviorRestored ==
    (\A p \in Purges : purgePc[p] # "awaiting") => behavior = configured

(***************************************************************************)
(* Scenario: the User records reference up to MaxEyes Eye records from     *)
(* their arrays, so that the find of the class Eye can return the records  *)
(* in an order other than the one an array lists them in.                  *)
(***************************************************************************)
EyeSeqs == UNION {[1..n -> {RId(i) : i \in EyeIds}] : n \in 0..MaxRefs}

InitOrder ==
    /\ InitCommon
    /\ InitOther
    /\ rejecting = {}
    /\ targets = [c \in Classes |-> IF c = "Eye" THEN EyeIds ELSE TargetIds]
    /\ ownerRecs \in {recs \in [Owners -> [pet : RefValues, spare : {RNull}, eyes : EyeSeqs]] :
                        TotalRefs(recs, 1) <= MaxRefs}
    /\ docs = [o \in Owners |-> BlankUser]
    /\ result = {}
    /\ popPc = "idle"
    /\ popOpts = [one |-> 0, has |-> FALSE, populate |-> PFalse]
    /\ pending = NoMap
    /\ loads = {}
    /\ finds = [c \in Classes |-> 0]
    /\ findOpts = {}
    /\ missing = {}

NextOrder ==
    \/ \E one \in {0, 1}, opts \in PopulateOptions : FindCall(one, opts)
    \/ FindData
    \/ \E c \in Classes, n \in 0..MaxEyes :
          \E foundDocs \in [1..n -> {RDoc(i, b) : i \in RefIds, b \in {"id", "doc"}}] :
              LoadDone(c, foundDocs)
    \/ PopulateDone
    \/ \E c \in Classes, id \in TargetIds : deleteTarget(c, id)

SpecOrder == InitOrder /\ [][NextOrder]_vars

(***************************************************************************)
(* Order and contents of populated reference fields.                       *)
(***************************************************************************)
\* the target ids a field's elements stand for, in order
IdsOf(seq) == [i \in 1..Len(seq) |-> seq[i].id]

\* the ids of the owner's stored list whose target the find returned
FoundIds(o, k) ==
    LET Found(id) == <<KeyClass(k), id>> \notin missing
    IN SelectSeq(IdsOf(ownerRecs[o][k]), Found)

\* C22: after populate has resolved, each owner's array-of-references field
\* lists the hydrated targets in the order of that owner's stored id list
\* (targets that were not found left out), whatever the order in which the
\* storage find returned the records
C22_OwnerOrder ==
    (popPc = "done" /\ Populated) =>
        \A o \in result : \A k \in Range(RefNKeys) :
            Selected(k, getPopulateOption(popOpts)) =>
                IdsOf(docs[o][k]) = FoundIds(o, k)

\* C23: after populate has resolved, no selected reference field holds a raw
\* id: an array field holds hydrated instances only and a single-reference
\* field holds an instance or null
C23_NoRawId ==
    (popPc = "done" /\ Populated) =>
        \A o \in result : \A k \in RefKeys :
            Selected(k, getPopulateOption(popOpts)) =>
                IF k \in Range(Ref1Keys)
                THEN docs[o][k].k # "id"
                ELSE \A i \in 1..Len(docs[o][k]) : docs[o][k][i].k = "doc"

(***************************************************************************)
(* populate() called again on a document a find has returned populated.    *)
(***************************************************************************)
\* BaseDocument.populate is called again with the documents and the fields
\* of the call the find made.  The loops take each array element and each
\* native id as a property name (an instance is not an id: IdKey), the
\* arrays are flushed, the find of each class of the map returns the records
\* that exist, in some order, and the callbacks fill the waiting slots
PopulateAgain ==
    /\ popPc = "done"
    /\ Populated
    /\ LET fields == getPopulateOption(popOpts)
           visitsN == RefNVisits(docs, result, fields, 1, 1)
           visits1 == Ref1Visits(docs, result, fields, 1, 1)
           map == id2popTarget(visitsN, visits1)
           cs == {c \in Classes : PendingIds(map, c) # {}}
           Found(c) == IF c \in cs THEN TargetFind(c, PendingIds(map, c), LoadOptions) ELSE {}
       IN /\ \A c \in Classes : finds[c] + (IF c \in cs THEN 1 ELSE 0) <= MaxFinds
          /\ pending' = map
          /\ finds' = [c \in Classes |-> finds[c] + (IF c \in cs THEN 1 ELSE 0)]
          /\ findOpts' = IF cs = {} THEN findOpts ELSE findOpts \cup {LoadOptions}
          /\ \E foundPets \in Orders(Found("Pet")), foundEyes \in Orders(Found("Eye")) :
                docs' = BackFill(BackFill(Flush(docs, result, fields),
                                          map["Pet"], foundPets, 1),
                                 map["Eye"], foundEyes, 1)
    /\ UNCHANGED <<otherVars, classVars, docVars, saveVars, dbVars, targets, ownerRecs, result,
                   popPc, popOpts, loads, missing>>

NextAgain ==
    \/ NextOrder
    \/ PopulateAgain

SpecAgain == InitOrder /\ [][NextAgain]_vars

\* C29: a populate() call on a document that a find returned populated
\* leaves every reference field of every fetched document holding the same
\* hydrated targets, in the same number and order
C29_Step == (popPc = "done" /\ popPc' = "done") => docs' = docs
C29_Idempotent == [][C29_Step]_vars

(***************************************************************************)
(* Scenario: save() or delete() of a Cup whose embedded documents have     *)
(* hooks that are plain functions or return promises.                      *)
(***************************************************************************)
AllHookNames == Range(HkPhases("save")) \cup Range(HkPhases("delete"))

InitHooks ==
    /\ InitCommon
    /\ InitNoRefs
    /\ rejecting = {}
    /\ InitSchema
    /\ InitNoCall
    /\ InitNoDelete
    /\ InitNoIndex
    /\ InitNoOperation
    /\ InitNoClient
    /\ InitNoPurge
    /\ InitNoOverlap
    /\ hkOp = ""
    /\ hkPos = 0
    /\ hkAsync \in SUBSET HkNodes
    /\ hkLog = <<>>
    /\ hkOpen = {}

NextHooks ==
    \/ \E op \in {"save", "delete"} : HookOperation(op) /\ HookFrame
    \/ HookPhase /\ HookFrame
    \/ \E n \in HkNodes, hookName \in AllHookNames : HookSettles(n, hookName) /\ HookFrame

SpecHooks == InitHooks /\ [][NextHooks]_vars

\* the position of an event in the log (0 when it is not there)
HkAt(e) == IF \E i \in 1..Len(hkLog) : hkLog[i] = e
           THEN CHOOSE i \in 1..Len(hkLog) : hkLog[i] = e
           ELSE 0
HkCount(e) == Cardinality({i \in 1..Len(hkLog) : hkLog[i] = e})

\* C24: in every hook phase of save() and delete(), the hook of each embedded
\* child has ended (its promise settled) before the hook of the owning
\* document for that phase starts
C24_ChildrenSettleFirst ==
    \A hookName \in AllHookNames : \A n \in HkNodes : \A c \in Range(Embeddeds(n)) :
        (HkAt(<<n, hookName, "start">>) # 0 /\ HkAt(<<c, hookName, "start">>) # 0) =>
            /\ HkAt(<<c, hookName, "end">>) # 0
            /\ HkAt(<<c, hookName, "end">>) < HkAt(<<n, hookName, "start">>)

\* C25: when every phase of the operation has run, each of its hooks has been
\* invoked exactly once on the document and on every embedded document
\* reachable from it, at any depth
C25_EveryEmbeddedOnce ==
    (hkOp # "" /\ hkPos = Len(HkPhases(hkOp)) /\ hkOpen = {}) =>
        \A hookName \in Range(HkPhases(hkOp)) : \A n \in {"cup"} \cup Reachable("cup") :
            HkCount(<<n, hookName, "start">>) = 1

(***************************************************************************)
(* Schema compilation: the optional validators of an entry.  A type is a   *)
(* constructor (String, Number, ..., a Document class, the wildcards Array *)
(* and Object) or an array literal with no or one element.                 *)
(***************************************************************************)
BasicTypes == {"String", "Number", "Boolean", "Buffer", "Date", "Document"}
Constructor(name) == [kind |-> "class", of |-> name]
ArrayOf(name) == [kind |-> "array", of |-> name]
EntryTypes ==
    {Constructor(n) : n \in BasicTypes \cup {"Array", "Object"}}
        \cup {ArrayOf(n) : n \in {"", "String", "Number", "Date", "Document"}}

Validators == {"match", "choices", "min", "max"}

\* the entries of the scenario: a type and the validators it carries, each
\* with a value of the right kind (a RegExp, a non-empty array, a number);
\* a wildcard entry carries its three functions
SchemaEntries == [type : EntryTypes, props : SUBSET Validators]

isSupportedBasicType(t) == t.kind = "class" /\ t.of \in BasicTypes

\* what entry.type is after the first block of assertValidSchemaEntry
EntryType(t) ==
    IF isSupportedBasicType(t) THEN t
    ELSE IF t.kind = "class" \/ t.of = "" THEN [kind |-> "CustomType", of |-> ""]
    ELSE [kind |-> "TypedArrayType", of |-> t.of]

\* t[ST_IS_TYPED_ARRAY]: the marker is set on TypedArrayType instances
IsTypedArray(t) == t.kind = "TypedArrayType"

\* assertValidSchemaEntry(docProp, entry, false): t is entry.type as read in
\* the first line, the checks of choices, min/max and match test t
CheckEntry(entry) ==
    LET t == entry.type
        String == Constructor("String")
        Number == Constructor("Number")
        Date == Constructor("Date")
    IN IF "choices" \in entry.props /\ t # String /\ t # Number /\ t # Date
       THEN <<"choices", "threw">>
       ELSE IF \E prop \in {"min", "max"} : prop \in entry.props /\ t # Number /\ t # Date
       THEN <<"min/max", "threw">>
       ELSE IF "match" \in entry.props
               /\ t # String /\ ~(IsTypedArray(t) /\ t.of = "String")
       THEN <<"match", "threw">>
       ELSE <<EntryType(t).kind, "returned">>

\* the schema of a class with this one entry is compiled
CompileEntry ==
    /\ outcome = NotCalled
    /\ outcome' = CheckEntry(subject)
    /\ UNCHANGED <<subject, schemaVars, delVars, laterVars>>
    /\ UNCHANGED <<classVars, docVars, saveVars, dbVars, popVars>>

InitCompile ==
    /\ InitCommon
    /\ InitNoRefs
    /\ InitSchema
    /\ InitNoDelete
    /\ InitLater
    /\ rejecting = {}
    /\ subject \in SchemaEntries
    /\ outcome = NotCalled

NextCompile == CompileEntry

SpecCompile == InitCompile /\ [][NextCompile]_vars

\* the types each validator is documented for
ValidatorTypes(prop) ==
    CASE prop = "match" -> {Constructor("String"), ArrayOf("String")}
      [] prop = "choices" -> {Constructor("String"), Constructor("Number"), Constructor("Date")}
      [] OTHER -> {Constructor("Number"), Constructor("Date")}

\* C26: schema compilation accepts an entry exactly when each validator it
\* carries is on a type it is for: match on String and array-of-String,
\* choices on String, Number and Date, min and max on Number and Date; on
\* any other type it raises a configuration error
C26_ValidatorTypes ==
    outcome # NotCalled =>
        (outcome[2] = "returned" <=>
            \A prop \in subject.props : subject.type \in ValidatorTypes(prop))

(***************************************************************************)
(* The sequence of instance.delete()                                       *)
(***************************************************************************)
\* the invocations of the document's own hooks on instance d, in order
OwnHooks(d) ==
    LET Own(call) == call[1] = "parent"
    IN [i \in 1..Len(SelectSeq(delLog[d], Own)) |-> SelectSeq(delLog[d], Own)[i][2]]
Ends(seq, tail) ==
    /\ Len(seq) >= Len(tail)
    /\ SubSeq(seq, Len(seq) - Len(tail) + 1, Len(seq)) = tail

\* whether the collection holds the record of instance d
RecordExists(d) == \E r \in store : r["_id"] = heap[d]["_id"]

C27_Inv ==
    \A d \in Slots :
        /\ delPc[d] \in {"preDelete", "dbDelete"} => Ends(OwnHooks(d), <<"preDelete">>)
        /\ delPc[d] \in {"postDelete", "resolved"} =>
              Ends(OwnHooks(d), <<"preDelete", "postDelete">>)

C27_Step ==
    \A d \in Slots :
        /\ (delPc[d] = "preDelete" /\ delPc'[d] # "preDelete") =>
              /\ store' = store
              /\ delLog'[d] = delLog[d]
              /\ delPc'[d] = IF delPend[d] = {} THEN "dbDelete" ELSE "rejected"
        /\ (delPc[d] = "dbDelete" /\ delPc'[d] # "dbDelete") =>
              /\ delPc'[d] = "postDelete"
              /\ store' = {r \in store : r["_id"] # heap[d]["_id"]}
              /\ delRet'[d] = IF RecordExists(d) THEN 1 ELSE 0
              /\ OwnHooks(d)' = Append(OwnHooks(d), "postDelete")
        /\ (delPc'[d] = "resolved" /\ delPc[d] # "resolved") =>
              /\ delPc[d] = "postDelete"
              /\ delPend[d] = {}
              /\ delRet'[d] = delRet[d]
              /\ store' = store

\* C27: instance.delete() invokes the preDelete hooks and awaits them, then
\* calls the storage delete for the instance's id, then invokes and awaits
\* the postDelete hooks, and resolves with the number of records removed:
\* 1 if the record existed, 0 otherwise, also for a never-saved instance
C27_DeleteSequence == []C27_Inv /\ [][C27_Step]_vars

\* one delete() resolved with 1 for a stored record and one resolved with 0
\* for an instance that was never saved, each after its own two hooks
C27_Witness ==
    \E d1, d2 \in Slots :
        /\ delPc[d1] = "resolved" /\ delRet[d1] = 1
        /\ isNativeId(heap[d1]["_id"]) /\ ~RecordExists(d1)
        /\ delPc[d2] = "resolved" /\ delRet[d2] = 0
        /\ heap[d2]["_id"] = Null
        /\ delLog[d2] = << <<"parent", "preDelete">>, <<"parent", "postDelete">> >>

(***************************************************************************)
(* Scenario: save() is called MaxSaves times on a Note instance that was   *)
(* never saved, the calls overlapping in every way.                        *)
(***************************************************************************)
InitOverlap ==
    /\ InitCommon
    /\ InitNoRefs
    /\ rejecting = {}
    /\ InitSchema
    /\ InitNoCall
    /\ InitNoDelete
    /\ InitNoIndex
    /\ InitNoOperation
    /\ InitNoClient
    /\ InitNoPurge
    /\ InitNoHooks
    /\ ovPc = [c \in SaveCalls |-> "idle"]
    /\ ovArg = [c \in SaveCalls |-> 0]
    /\ ovRes = [c \in SaveCalls |-> 0]
    /\ ovId = 0
    /\ ovStore = {}
    /\ ovUnique \in BOOLEAN

NextOverlap ==
    \/ \E c \in SaveCalls : OverlapCall(c) /\ OverlapFrame
    \/ \E c \in SaveCalls : OverlapDbSave(c) /\ OverlapFrame
    \/ \E c \in SaveCalls : OverlapStored(c) /\ OverlapFrame
    \/ \E c \in SaveCalls : OverlapAdopt(c) /\ OverlapFrame
    \/ \E c \in SaveCalls : OverlapResolve(c) /\ OverlapFrame

SpecOverlap == InitOverlap /\ [][NextOverlap]_vars

\* C28: when the save() calls on a never-saved instance have all settled and
\* each of them handed a null id to the storage client, the collection holds
\* at most one record of the instance, and the instance's _id is its id
C28_OneRecord ==
    (/\ \A c \in SaveCalls : ovPc[c] \in {"resolved", "rejected"}
     /\ \A c \in SaveCalls : ovArg[c] = 0) =>
        /\ Cardinality(ovStore) <= 1
        /\ ovStore # {} => ovId \in ovStore

(***************************************************************************)
(* NeDbClient.findOneAndUpdate, callback by callback.  The options         *)
(* argument is absent, an empty object, or carries upsert true or false;   *)
(* found tells whether the query matches a record; failing is the          *)
(* datastore call that calls back with an error (0: none): 1 the lookup,   *)
(* 2 the update or the insert, 3 the re-read.                              *)
(***************************************************************************)
UpdateOptions == {"absent", "empty", "upsert", "noUpsert"}

\* the number of findOneAndUpdate calls made so far
UpdatesSoFar == IF opCall = NoCall THEN 0 ELSE opCall.n

\* the datastore calls of one findOneAndUpdate
UpdateSteps(call) ==
    IF call.found THEN 3
    ELSE IF call.options = "upsert" THEN 2
    ELSE 1

\* findOneAndUpdate is called: new Promise(...), this.findOne(collection,
\* query) is issued
UpdateCall(options, found, failing) ==
    /\ opEnd[1] \in {"none", "resolved", "rejected"}
    /\ UpdatesSoFar < MaxCalls
    /\ opCall' = [op |-> "NeDbClient.findOneAndUpdate", options |-> options, found |-> found,
                  failing |-> failing, n |-> UpdatesSoFar + 1]
    /\ failing \in 0..UpdateSteps(opCall')
    /\ opPos' = 1
    /\ opErr' = NoError
    /\ opEnd' = <<"pending", "">>
    /\ UNCHANGED <<idxVars, cliVars, lastVars, schemaVars, callVars, delVars, classVars, docVars,
                   saveVars, dbVars, popVars>>

\* the datastore call in flight calls back.  The promise of the lookup has
\* a fulfilment handler only: when it rejects, neither resolve nor reject of
\* the returned promise is called.  The callbacks of insert, update and the
\* re-read call reject on an error and resolve otherwise
UpdateStep ==
    /\ opCall # NoCall
    /\ opCall.op = "NeDbClient.findOneAndUpdate"
    /\ opPos \in 1..3
    /\ IF opPos = opCall.failing
       THEN /\ opErr' = Step("storage", CASE opPos = 1 -> "findOne"
                                          [] opPos = 2 /\ opCall.found -> "update"
                                          [] opPos = 2 -> "insert"
                                          [] OTHER -> "findOne again")
            /\ opPos' = 0
            /\ opEnd' = IF opPos = 1 THEN opEnd ELSE <<"rejected", opErr'[2]>>
       ELSE /\ UNCHANGED opErr
            /\ IF opPos = UpdateSteps(opCall)
               THEN /\ opPos' = 0
                    /\ opEnd' = <<"resolved", IF opPos = 1 THEN "null" ELSE "document">>
               ELSE /\ opPos' = opPos + 1
                    /\ UNCHANGED opEnd
    /\ UNCHANGED <<opCall, idxVars, cliVars, lastVars, schemaVars, callVars, delVars, classVars,
                   docVars, saveVars, dbVars, popVars>>

NextUpdate ==
    \/ \E options \in UpdateOptions, found \in BOOLEAN, failing \in 0..3 :
          UpdateCall(options, found, failing)
    \/ UpdateStep

\* the datastore calls back for every call it accepted
SpecUpdate == InitErrors /\ [][NextUpdate]_vars /\ WF_vars(UpdateStep)

\* C30: the promise NeDbClient.findOneAndUpdate returned settles, whatever
\* the lookup, the update, the insert and the re-read call back with
C30_AlwaysSettles == (opEnd[1] = "pending") ~> (opEnd[1] \in {"resolved", "rejected"})

====
